---- MODULE Spec2Model ----
(***************************************************************************)
(* Model of the audio engine of src/services/audioProcessor.ts: cue-point  *)
(* analysis, timeline construction, render scheduling and PCM encoding.    *)
(*                                                                         *)
(* Units.  Every time value is an integer number of ticks of half a        *)
(* second, the greatest common unit of the time constants of the source    *)
(* (0.5, 1.0, 1.5, 2 and 6 seconds).  A decoded buffer carries its frame   *)
(* period in ticks in place of its sample rate: sampleRate = 2 / period    *)
(* frames per second, so that i / sampleRate = i * period ticks, exactly.  *)
(* Sample values are integers in thousandths of full scale.                *)
(***************************************************************************)
EXTENDS Integers, Sequences, FiniteSets, TLC

VARIABLES
    playlist,        \* generateMasterBuffer's playlist argument
    tracks,          \* generateMasterBuffer's tracks argument
    decoder,         \* the decoding collaborator: frames it may still deliver, frame periods
    entryIndex,      \* position of the `for (const entry of playlist)` loop
    analyzedTracks,  \* analyzedTracks of generateMasterBuffer
    decodeCalls,     \* number of decodeTrack calls made by the request
    events,          \* events of generateMasterBuffer
    offlineCtx,      \* the OfflineAudioContext of the request, or NoContext
    gains,           \* gains[i]: the automation scheduled on event i's gain node
    master,          \* the AudioBuffer the request resolved with, or NoBuffer
    error,           \* what the request rejected with, or NoError
    pc,              \* where the operation under way is
    abuffer,         \* bufferToWav's argument
    view,            \* bufferToWav's DataView: the header fields and the 16-bit data words
    pos,             \* pos of bufferToWav
    offset,          \* offset of bufferToWav
    cueBuffer,       \* the buffer handed to the cue analysis
    cue,             \* the cue points found for cueBuffer, or NoCue
    nbuffer,         \* normalizeBuffer's argument, as decodeAudioData delivered it
    normalized,      \* the gain normalizeBuffer applied and the samples it left
    mixInput,        \* a clip's cue points and category and its successor's category
    mixPoint,        \* the effective mix point computed for mixInput
    lamejs,          \* whether window.lamejs is there
    mbuffer,         \* bufferToMp3's argument
    mp3,             \* bufferToMp3's locals: loop index, encoder calls, mp3Data
    caller,          \* who awaits generateMasterBuffer: renderMix, handleMix or nobody
    app,             \* the App's state: masterBuffer, isMixing, downloadWavUrl, history
    encoderCalls,    \* the bufferToWav and bufferToMp3 invocations made so far
    settled,         \* how each generateMasterBuffer call of the App settled, in order
    preview,         \* PlaylistView's preview state: the audio element, the contexts, the refs
    auth,            \* the App's view, login modal, authentication flag and users
    files,           \* what each track's file decodes to, for the concurrent requests
    requests         \* the locals of each of the concurrent generateMasterBuffer calls

requestVars == <<playlist, tracks, decoder, entryIndex, analyzedTracks, decodeCalls,
                 events, offlineCtx, gains, master, error>>
wavVars == <<abuffer, view, pos, offset>>
cueVars == <<cueBuffer, cue>>
normVars == <<nbuffer, normalized>>
mixVars == <<mixInput, mixPoint>>
mp3Vars == <<lamejs, mbuffer, mp3>>
appVars == <<caller, app, encoderCalls, settled>>
pairVars == <<files, requests>>
uiVars == <<preview, auth>>
extVars == <<normVars, mixVars, mp3Vars, appVars, pairVars, uiVars>>
vars == <<requestVars, wavVars, cueVars, extVars, pc>>

----------------------------------------------------------------------------
(* Bounds of the model. *)

\* Longest playlist of the general specification.
MaxEntries == 2

\* Frames the decoder delivers to one request, over all its clips.
MaxFrames == 3

\* Frames the decoder delivers to one request of the two-clip scenarios.
MaxScenarioFrames == 6

\* Samples (frames times channels) of an encoded buffer beyond its lead.
MaxWavSamples == 3

\* Frames of a buffer handed to the stand-alone cue analysis.
MaxCueFrames == 4

\* Frames of a buffer handed to normalizeBuffer.
MaxNormFrames == 2

\* Users the App keeps.
MaxUsers == 3

\* Calls of playTransitionPreview that get as far as making a context.
MaxPreviewCalls == 3

\* Frames of a decoded file that is normalized and then analyzed.
MaxDecodeFrames == 3

\* Whole blocks of 1,152 frames in a buffer handed to bufferToMp3.
MaxMp3Blocks == 2

\* Samples (frames times channels) of a short buffer encoded to MP3.
MaxMp3Samples == 2

\* Mixes the App or renderMix asks for, one after the other.
MaxMixes == 2

\* Longest playlist of such a mix.
MaxMixEntries == 2

\* Frames the decoder delivers to one such mix, over all its clips.
MaxMixFrames == 2

\* Encoder invocations the callers make over all their mixes.
MaxEncoderCalls == 3

\* Longest playlist of each of two concurrent calls.
MaxPairEntries == 2

\* Longest playlist with entries of unknown tracks among those of known ones.
MaxSkipEntries == 3

\* Longest playlist of the calls that differ in their hints.
MaxHintEntries == 2

----------------------------------------------------------------------------
(* Program constants, in ticks of half a second, and thresholds in         *)
(* hundredths of a dB.                                                     *)

CueInThresholdDb == -2500      \* findCueIn(buffer, -25)
CueOutThresholdDb == -2800     \* findCueOut(buffer, -28)
MixPoint15Db == -1500          \* findMixPoint(buffer, cueOut, -15)
MixPoint6Db == -600            \* findMixPoint(buffer, cueOut, -6)
SilenceDb == -10000            \* getDb(0) = -100
MixFallback == 4               \* cueOutTime - 2
VoiceLead == 1                 \* cueOut - 0.5
SharpSlope == 3                \* fadeSlopeDuration < 1.5
ShortTail == 3                 \* tailLength > 1.5, cueOut - 1.5
LongTail == 12                 \* tailLength > 6, cueOut - 6
VoicePull == 3                 \* effectiveMixPoint - 1.5
TailFade == 2                  \* destEnd - 1.0
MasterRate == 44100            \* const sampleRate = 44100
HeaderBytes == 44              \* len * numOfChan * 2 + 44
BlockSize == 1152              \* const blockSize = 1152
Kbps == 320                    \* new Mp3Encoder(channels, sampleRate, 320)

----------------------------------------------------------------------------
(* Helpers. *)

Min(a, b) == IF a < b THEN a ELSE b
Max(a, b) == IF a > b THEN a ELSE b
Abs(a) == IF a < 0 THEN -a ELSE a
SetMin(S) == CHOOSE x \in S : \A y \in S : x <= y
SetMax(S) == CHOOSE x \in S : \A y \in S : x >= y

\* Math.ceil(seconds * rate) for a time of `ticks` half-seconds.
Frames(ticks, rate) == (ticks * rate + 1) \div 2

----------------------------------------------------------------------------
(* Types and the track library. *)

TrackType == {"MUSIC", "JINGLE", "COMMERCIAL", "VOICE", "OTHER"}

NoTrack == [id |-> "none"]
NoBuffer == [numberOfChannels |-> 0]
NoContext == [length |-> -1]
NoView == [header |-> <<>>]
NoCue == [cueIn |-> -1]
NoMixPoint == [effectiveMixPoint |-> -1]
NoEncoding == [i |-> -1]
NoError == [name |-> "none"]
NoAppState == [masterBuffer |-> NoBuffer]
NoPreview == [audioRef |-> "unmounted"]
NoAuth == [view |-> "unmounted"]

\* A file decodeAudioData rejects.
Undecodable == [period |-> 0]

\* The DOMException decodeAudioData rejects with; nothing wraps it.
DecodeError == [name |-> "EncodingError"]

\* The library handed to every request: one track of each category.
Library ==
    << [id |-> "m", type |-> "MUSIC"],
       [id |-> "j", type |-> "JINGLE"],
       [id |-> "c", type |-> "COMMERCIAL"],
       [id |-> "v", type |-> "VOICE"],
       [id |-> "o", type |-> "OTHER"] >>

\* A trackId that no track of the library has.
UnknownId == "x"

TrackIds == {Library[i].id : i \in DOMAIN Library} \cup {UnknownId}

\* A map whose get answers an unknown id with the first track.
trackMapGet_firstTrack(ts, id) ==
    LET hits == {i \in DOMAIN ts : ts[i].id = id}
    IN  IF hits = {} THEN ts[1] ELSE ts[SetMax(hits)]

\* new Map(tracks.map(t => [t.id, t])).get(id): the last track with that id.
trackMapGet(ts, id) ==
    LET hits == {i \in DOMAIN ts : ts[i].id = id}
    IN  IF hits = {} THEN NoTrack ELSE ts[SetMax(hits)]

----------------------------------------------------------------------------
(* Cue analysis. *)

\* Channel-0 sample values a decoded, normalized buffer is drawn from: one
\* value in each band the four thresholds cut the levels into.  The peak
\* normalizeBuffer scales to 0.89125 is taken over all channels, so channel 0,
\* which alone is analyzed, may stay below any of the thresholds.
SampleVals == {0, 50, 100, 300, 800}

\* 20 * Math.log10(a / 1000) in hundredths of a dB, rounded down.
TwentyLog10(a) ==
    CASE a = 1000 -> 0
      [] a = 891 -> -101
      [] a = 800 -> -194
      [] a = 600 -> -444
      [] a = 500 -> -603
      [] a = 300 -> -1046
      [] a = 200 -> -1398
      [] a = 100 -> -2000
      [] a = 50 -> -2603
      [] a = 30 -> -3046
      [] a = 10 -> -4000

getDb(sample) ==
    IF sample = 0 THEN SilenceDb ELSE TwentyLog10(Abs(sample))

\* i / buffer.sampleRate
FrameTime(i, buffer) == i * buffer.period

\* buffer.duration
Duration(buffer) == Len(buffer.data) * buffer.period

\* data[i] of the source is data[i + 1] here.
Loud(buffer, i, thresholdDb) ==
    /\ i >= 0
    /\ i < Len(buffer.data)
    /\ getDb(buffer.data[i + 1]) > thresholdDb

\* findCueIn with findCueOut's fallback: the duration when no sample is loud.
findCueIn_durationFallback(buffer, thresholdDb) ==
    LET hits == {i \in 0..(Len(buffer.data) - 1) : Loud(buffer, i, thresholdDb)}
    IN  IF hits = {} THEN Duration(buffer) ELSE FrameTime(SetMin(hits), buffer)

findCueIn(buffer, thresholdDb) ==
    LET hits == {i \in 0..(Len(buffer.data) - 1) : Loud(buffer, i, thresholdDb)}
    IN  IF hits = {} THEN 0 ELSE FrameTime(SetMin(hits), buffer)

findCueOut(buffer, thresholdDb) ==
    LET hits == {i \in 0..(Len(buffer.data) - 1) : Loud(buffer, i, thresholdDb)}
    IN  IF hits = {} THEN Duration(buffer) ELSE FrameTime(SetMax(hits), buffer)

\* Math.floor(t * buffer.sampleRate) for a time t = i / buffer.sampleRate.
\* In double precision the product of the rounded quotient is below i for
\* some frames i (15, 23, 30, 46, ... at 44,100 Hz) and the floor is then
\* i - 1; buffer.inexact tells whether the frame the time stands for is one
\* of these.
TimeToFrame(t, buffer) ==
    LET i == t \div buffer.period
    IN  IF buffer.inexact /\ i > 0 THEN i - 1 ELSE i

\* A read past the end of data yields undefined, whose level is NaN and is
\* above no threshold.
findMixPoint(buffer, cueOutTime, thresholdDb) ==
    LET endSample == TimeToFrame(cueOutTime, buffer)
        hits == {i \in 0..endSample : Loud(buffer, i, thresholdDb)}
    IN  IF hits = {} THEN Max(0, cueOutTime - MixFallback)
        ELSE FrameTime(SetMax(hits), buffer)

\* The body of the decode loop for a resolved track.
AnalyzeTrack(buffer, track) ==
    LET cueIn == findCueIn(buffer, CueInThresholdDb)
        cueOut == findCueOut(buffer, CueOutThresholdDb)
    IN  [ buffer |-> [length |-> Len(buffer.data), period |-> buffer.period],
          cueIn |-> cueIn,
          cueOut |-> cueOut,
          mixPoint15 |-> findMixPoint(buffer, cueOut, MixPoint15Db),
          mixPoint6 |-> findMixPoint(buffer, cueOut, MixPoint6Db),
          type |-> track.type ]

\* What decodeTrack may resolve with: any buffer of 1..n frames.
DecodedBuffers(n, periods) ==
    { [data |-> d, period |-> p, inexact |-> e] :
        d \in UNION { [1..len -> SampleVals] : len \in 1..n }, p \in periods,
        e \in BOOLEAN }

----------------------------------------------------------------------------
(* normalizeBuffer.  Samples are here in units of 1/800 of full scale, in   *)
(* which the target 0.89125 is the integer 713; the gain and the normalized  *)
(* samples are exact fractions <<numerator, denominator>>, the rounding of   *)
(* the Float32Array store being below the model's resolution.                *)

\* const target = 0.89125
Target == 713

\* Sample values a decoded buffer is drawn from: full scale, 0.4, 0, 0.25, 0.9.
NormSamples == {-800, -320, 0, 200, 720}

\* Buffers of 1 or 2 channels and 0 to MaxNormFrames frames.
NormBuffers ==
    { [numberOfChannels |-> c, length |-> n, channels |-> ch] :
        <<c, n, ch>> \in
            UNION { { <<cc, nn, h>> : h \in [1..cc -> [1..nn -> NormSamples]] } :
                    <<cc, nn>> \in (1..2) \X (0..MaxNormFrames) } }

\* The largest absolute sample over all channels, 0 for no sample.
maxPeak(buffer) ==
    LET abs == { Abs(buffer.channels[i][j]) :
                    <<i, j>> \in (1..buffer.numberOfChannels) \X (1..buffer.length) }
    IN  IF abs = {} THEN 0 ELSE SetMax(abs \cup {0})

\* A gain of 1 whatever the peak is.
NormGain_unity(peak) == <<1, 1>>

\* const gain = maxPeak > 0 ? target / maxPeak : 1
NormGain(peak) ==
    IF peak > 0 THEN <<Target, peak>> ELSE <<1, 1>>

\* normalizeBuffer as a whole: the peak scan, the gain, data[j] *= gain.
normalizeBuffer ==
    /\ pc = "normalizeBuffer"
    /\ LET gain == NormGain(maxPeak(nbuffer))
       IN  normalized' =
               [ numberOfChannels |-> nbuffer.numberOfChannels,
                 length |-> nbuffer.length,
                 gain |-> gain,
                 channels |-> [i \in 1..nbuffer.numberOfChannels |->
                                  [j \in 1..nbuffer.length |->
                                      <<nbuffer.channels[i][j] * gain[1], gain[2]>>]] ]
    /\ pc' = "normalized"
    /\ UNCHANGED <<nbuffer, requestVars, wavVars, cueVars, mixVars, mp3Vars,
                   appVars, pairVars, uiVars>>

----------------------------------------------------------------------------
(* Timeline. *)

\* The mix point with the Voice pull-back left unclamped.
EffectiveMixPoint_unclamped(current, next) ==
    LET fadeSlopeDuration == Abs(current.mixPoint15 - current.mixPoint6)
        tailLength == current.cueOut - current.mixPoint15
        own == IF current.type = "VOICE" THEN current.cueOut - VoiceLead
               ELSE IF fadeSlopeDuration < SharpSlope
                    THEN IF tailLength > ShortTail
                         THEN current.cueOut - ShortTail
                         ELSE current.mixPoint15
                    ELSE IF tailLength > LongTail
                         THEN current.cueOut - LongTail
                         ELSE current.mixPoint15
    IN  IF next # NoTrack /\ next.type = "VOICE"
        THEN own - VoicePull
        ELSE own

\* The mix point with the long tail cut like the short one, 1.5 seconds
\* before cueOut.
EffectiveMixPoint_shortCut(current, next) ==
    LET fadeSlopeDuration == Abs(current.mixPoint15 - current.mixPoint6)
        tailLength == current.cueOut - current.mixPoint15
        own == IF current.type = "VOICE" THEN current.cueOut - VoiceLead
               ELSE IF fadeSlopeDuration < SharpSlope
                    THEN IF tailLength > ShortTail
                         THEN current.cueOut - ShortTail
                         ELSE current.mixPoint15
                    ELSE IF tailLength > LongTail
                         THEN current.cueOut - ShortTail
                         ELSE current.mixPoint15
    IN  IF next # NoTrack /\ next.type = "VOICE"
        THEN Max(current.cueIn, own - VoicePull)
        ELSE own

\* The mix point with a fade slope of exactly 1.5 seconds taken as sharp.
EffectiveMixPoint_slopeInclusive(current, next) ==
    LET fadeSlopeDuration == Abs(current.mixPoint15 - current.mixPoint6)
        tailLength == current.cueOut - current.mixPoint15
        own == IF current.type = "VOICE" THEN current.cueOut - VoiceLead
               ELSE IF fadeSlopeDuration <= SharpSlope
                    THEN IF tailLength > ShortTail
                         THEN current.cueOut - ShortTail
                         ELSE current.mixPoint15
                    ELSE IF tailLength > LongTail
                         THEN current.cueOut - LongTail
                         ELSE current.mixPoint15
    IN  IF next # NoTrack /\ next.type = "VOICE"
        THEN Max(current.cueIn, own - VoicePull)
        ELSE own

\* let effectiveMixPoint = current.mixPoint15; ... the chain of conditionals
\* on the clip's category and cue points, then the pull-back before a Voice.
EffectiveMixPoint(current, next) ==
    LET fadeSlopeDuration == Abs(current.mixPoint15 - current.mixPoint6)
        tailLength == current.cueOut - current.mixPoint15
        own == IF current.type = "VOICE" THEN current.cueOut - VoiceLead
               ELSE IF fadeSlopeDuration < SharpSlope
                    THEN IF tailLength > ShortTail
                         THEN current.cueOut - ShortTail
                         ELSE current.mixPoint15
                    ELSE IF tailLength > LongTail
                         THEN current.cueOut - LongTail
                         ELSE current.mixPoint15
    IN  IF next # NoTrack /\ next.type = "VOICE"
        THEN Max(current.cueIn, own - VoicePull)
        ELSE own

\* The advance clamped in source times instead of times from cueIn.
SafeTimeUntilMix_absolute(current, next) ==
    Min(EffectiveMixPoint(current, next), current.cueOut)

\* safeTimeUntilMix, the amount the cursor advances by.
SafeTimeUntilMix(current, next) ==
    LET duration == current.cueOut - current.cueIn
        timeUntilMix == EffectiveMixPoint(current, next) - current.cueIn
    IN  Min(timeUntilMix, duration)

\* The event with destEnd taken from the clip's length alone.
MakeEvent_noCursor(current, cursor) ==
    [ sourceStart |-> current.cueIn,
      sourceEnd |-> current.cueOut,
      destStart |-> cursor,
      destEnd |-> current.cueOut - current.cueIn ]

MakeEvent(current, cursor) ==
    [ sourceStart |-> current.cueIn,
      sourceEnd |-> current.cueOut,
      destStart |-> cursor,
      destEnd |-> cursor + (current.cueOut - current.cueIn) ]

\* The timeline loop, from iteration i with the given cursor and events.
RECURSIVE TimelineLoop(_, _, _, _)
TimelineLoop(analyzed, i, cursor, evts) ==
    IF i > Len(analyzed) THEN evts
    ELSE LET current == analyzed[i]
             next == IF i < Len(analyzed) THEN analyzed[i + 1] ELSE NoTrack
         IN  TimelineLoop(analyzed, i + 1,
                          cursor + SafeTimeUntilMix(current, next),
                          Append(evts, MakeEvent(current, cursor)))

Timeline(analyzed) == TimelineLoop(analyzed, 1, 0, <<>>)

----------------------------------------------------------------------------
(* Render scheduling. *)

\* The calls made on event index's gain node.
Automation(evts, index) ==
    LET event == evts[index]
        overlapNext == IF index < Len(evts)
                       THEN event.destEnd - evts[index + 1].destStart
                       ELSE 0
        hold == [kind |-> "setValueAtTime", value |-> 1, time |-> event.destStart]
        ramp == [kind |-> "linearRampToValueAtTime", value |-> 0, time |-> event.destEnd]
    IN  IF overlapNext > 0
        THEN << hold,
                [kind |-> "setValueAtTime", value |-> 1,
                 time |-> event.destEnd - overlapNext],
                ramp >>
        ELSE IF index = Len(evts)
             THEN << hold,
                     [kind |-> "setValueAtTime", value |-> 1,
                      time |-> event.destEnd - TailFade],
                     ramp >>
             ELSE << hold >>

\* new OfflineAudioContext(2, Math.ceil(totalLength * sampleRate), sampleRate)
ContextFor(evts) ==
    [ numberOfChannels |-> 2,
      length |-> Frames(evts[Len(evts)].destEnd, MasterRate),
      sampleRate |-> MasterRate ]

\* The Web Audio calls that throw: a context of no frames, a source started
\* at a negative time, an automation event at a negative time.
ScheduleThrows(evts) ==
    \/ ContextFor(evts).length <= 0
    \/ \E index \in DOMAIN evts :
          \/ evts[index].destStart < 0
          \/ \E a \in DOMAIN Automation(evts, index) :
                Automation(evts, index)[a].time < 0

\* audioContext.createBuffer(2, 44100, 44100)
createBuffer(numberOfChannels, length, sampleRate) ==
    [ numberOfChannels |-> numberOfChannels,
      length |-> length,
      sampleRate |-> sampleRate,
      sources |-> {} ]

\* The silent buffer created with one channel.
SilentMaster_mono == createBuffer(1, 44100, 44100)

SilentMaster == createBuffer(2, 44100, 44100)

\* The automation events in the order the gain node holds them: by time,
\* events of equal time in the order they were scheduled.
RECURSIVE ByTime(_)
ByTime(auto) ==
    IF auto = <<>> THEN <<>>
    ELSE LET first == CHOOSE i \in DOMAIN auto :
                          \A j \in DOMAIN auto :
                              \/ auto[i].time < auto[j].time
                              \/ auto[i].time = auto[j].time /\ i <= j
             rest == [k \in 1..(Len(auto) - 1) |->
                          IF k < first THEN auto[k] ELSE auto[k + 1]]
         IN  <<auto[first]>> \o ByTime(rest)

\* The gain at time t as a fraction <<numerator, denominator>>: the value of
\* the last event at or before t, or the point of the ramp that follows it.
GainAt(auto, t) ==
    LET s == ByTime(auto)
        past == {i \in DOMAIN s : s[i].time <= t}
    IN  IF past = {} THEN <<1, 1>>
        ELSE LET k == SetMax(past)
             IN  IF k < Len(s) /\ s[k + 1].kind = "linearRampToValueAtTime"
                 THEN << s[k].value * (s[k + 1].time - t)
                             + s[k + 1].value * (t - s[k].time),
                         s[k + 1].time - s[k].time >>
                 ELSE << s[k].value, 1 >>

----------------------------------------------------------------------------
(* generateMasterBuffer. *)

\* Resolved entries of the playlist from position i on.
Resolved(i) ==
    {j \in i..Len(playlist) : trackMapGet(tracks, playlist[j].trackId) # NoTrack}

Playlists(n) ==
    UNION { [1..len -> [trackId : TrackIds]] : len \in 0..n }

\* One iteration of the decode loop: an entry of an unknown track is passed
\* over, a resolved one is decoded and analyzed.
DecodeStep ==
    /\ pc = "decode"
    /\ entryIndex <= Len(playlist)
    /\ LET track == trackMapGet(tracks, playlist[entryIndex].trackId)
       IN  IF track # NoTrack
           THEN \E buffer \in DecodedBuffers(
                        decoder.frames - Cardinality(Resolved(entryIndex + 1)),
                        decoder.periods) :
                   /\ analyzedTracks' = Append(analyzedTracks, AnalyzeTrack(buffer, track))
                   /\ decoder' = [decoder EXCEPT !.frames = @ - Len(buffer.data)]
                   /\ decodeCalls' = decodeCalls + 1
           ELSE UNCHANGED <<analyzedTracks, decoder, decodeCalls>>
    /\ entryIndex' = entryIndex + 1
    /\ UNCHANGED <<playlist, tracks, events, offlineCtx, gains, master, error, pc>>
    /\ UNCHANGED <<wavVars, cueVars, extVars>>

\* The iteration of the decode loop in which decodeTrack rejects: the
\* rejection leaves the loop and generateMasterBuffer, which catches nothing.
DecodeFails ==
    /\ pc = "decode"
    /\ entryIndex <= Len(playlist)
    /\ trackMapGet(tracks, playlist[entryIndex].trackId) # NoTrack
    /\ decodeCalls' = decodeCalls + 1
    /\ error' = DecodeError
    /\ pc' = "failed"
    /\ UNCHANGED <<playlist, tracks, decoder, entryIndex, analyzedTracks,
                   events, offlineCtx, gains, master>>
    /\ UNCHANGED <<wavVars, cueVars, extVars>>

\* if (analyzedTracks.length === 0) return createBuffer(2, 44100, 44100)
ReturnSilent ==
    /\ pc = "decode"
    /\ entryIndex > Len(playlist)
    /\ analyzedTracks = <<>>
    /\ master' = SilentMaster
    /\ pc' = "done"
    /\ UNCHANGED <<playlist, tracks, decoder, entryIndex, analyzedTracks,
                   decodeCalls, events, offlineCtx, gains, error>>
    /\ UNCHANGED <<wavVars, cueVars, extVars>>

\* The timeline loop and the scheduling of every event, up to the await of
\* startRendering; a throwing Web Audio call rejects the request.
Schedule ==
    /\ pc = "decode"
    /\ entryIndex > Len(playlist)
    /\ analyzedTracks # <<>>
    /\ LET evts == Timeline(analyzedTracks)
       IN  /\ events' = evts
           /\ IF ScheduleThrows(evts)
              THEN /\ pc' = "failed"
                   /\ error' = [name |-> "RangeError"]
                   /\ UNCHANGED <<offlineCtx, gains>>
              ELSE /\ pc' = "rendering"
                   /\ error' = error
                   /\ offlineCtx' = ContextFor(evts)
                   /\ gains' = [index \in DOMAIN evts |-> Automation(evts, index)]
    /\ UNCHANGED <<playlist, tracks, decoder, entryIndex, analyzedTracks,
                   decodeCalls, master>>
    /\ UNCHANGED <<wavVars, cueVars, extVars>>

\* return await offlineCtx.startRendering()
RenderDone ==
    /\ pc = "rendering"
    /\ master' = [ numberOfChannels |-> offlineCtx.numberOfChannels,
                   length |-> offlineCtx.length,
                   sampleRate |-> offlineCtx.sampleRate,
                   sources |-> DOMAIN events ]
    /\ pc' = "done"
    /\ UNCHANGED <<playlist, tracks, decoder, entryIndex, analyzedTracks,
                   decodeCalls, events, offlineCtx, gains, error>>
    /\ UNCHANGED <<wavVars, cueVars, extVars>>

\* No encoding and no stand-alone cue analysis is under way.
NoWav ==
    /\ abuffer = NoBuffer
    /\ view = NoView
    /\ pos = 0
    /\ offset = 0

NoCueAnalysis ==
    /\ cueBuffer = NoBuffer
    /\ cue = NoCue

NoNormalize ==
    /\ nbuffer = NoBuffer
    /\ normalized = NoBuffer

NoMixPointCall ==
    /\ mixInput = NoCue
    /\ mixPoint = NoMixPoint

\* No compressed encoding is under way; the encoder library is loaded.
NoMp3 ==
    /\ lamejs = TRUE
    /\ mbuffer = NoBuffer
    /\ mp3 = NoEncoding

\* generateMasterBuffer is awaited by nobody else and the App holds no master.
NoApp ==
    /\ caller = "none"
    /\ app = NoAppState
    /\ encoderCalls = <<>>
    /\ settled = <<>>

NoPair ==
    /\ files = <<>>
    /\ requests = <<>>

\* Neither PlaylistView nor the App's screens are mounted.
NoUi ==
    /\ preview = NoPreview
    /\ auth = NoAuth

\* No single call of generateMasterBuffer is under way.
NoRequest ==
    /\ playlist = <<>>
    /\ tracks = Library
    /\ decoder = [frames |-> 0, periods |-> {}]
    /\ entryIndex = 1
    /\ analyzedTracks = <<>>
    /\ decodeCalls = 0
    /\ events = <<>>
    /\ offlineCtx = NoContext
    /\ gains = <<>>
    /\ master = NoBuffer
    /\ error = NoError

RequestStart(list, frames, periods) ==
    /\ playlist = list
    /\ tracks = Library
    /\ decoder = [frames |-> frames, periods |-> periods]
    /\ entryIndex = 1
    /\ analyzedTracks = <<>>
    /\ decodeCalls = 0
    /\ events = <<>>
    /\ offlineCtx = NoContext
    /\ gains = <<>>
    /\ master = NoBuffer
    /\ error = NoError
    /\ pc = "decode"
    /\ NoWav
    /\ NoCueAnalysis
    /\ NoNormalize
    /\ NoMixPointCall
    /\ NoMp3
    /\ NoApp
    /\ NoPair
    /\ NoUi

\* Any playlist over the library, clips of 1.5-second or half-second frames.
Init ==
    \E list \in Playlists(MaxEntries) : RequestStart(list, MaxFrames, {1, 3})

Next == DecodeStep \/ DecodeFails \/ ReturnSilent \/ Schedule \/ RenderDone

Spec == Init /\ [][Next]_vars

\* The two-clip Music/Music request of the scenarios, clips of 2-second or
\* 5-second frames.
InitTwoMusic ==
    RequestStart(<<[trackId |-> "m"], [trackId |-> "m"]>>, MaxScenarioFrames, {4, 10})

NextTwoMusic == DecodeStep \/ Schedule \/ RenderDone

SpecTwoMusic == InitTwoMusic /\ [][NextTwoMusic]_vars

----------------------------------------------------------------------------
(* The callers of generateMasterBuffer: renderMix, and the App's handleMix   *)
(* and handleDownloadMp3.  Object URLs and history blocks are named by the   *)
(* number of the mix that made them.                                         *)

\* The App before any mix.
InitialApp ==
    [ masterBuffer |-> NoBuffer,
      masterCall |-> 0,
      isMixing |-> FALSE,
      downloadWavUrl |-> 0,
      previousWavUrl |-> 0,
      urlsCreated |-> {},
      urlsRevoked |-> {},
      history |-> <<>>,
      statusMessage |-> "" ]

\* The playlists a mix is asked for: known and unknown tracks.
MixPlaylists ==
    UNION { [1..len -> [trackId : {"m", UnknownId}]] : len \in 0..MaxMixEntries }

\* generateMasterBuffer(list, tracks) is called: its locals are fresh.
CallGenerateMasterBuffer(list) ==
    /\ playlist' = list
    /\ decoder' = [frames |-> MaxMixFrames, periods |-> {1}]
    /\ entryIndex' = 1
    /\ analyzedTracks' = <<>>
    /\ decodeCalls' = 0
    /\ events' = <<>>
    /\ offlineCtx' = NoContext
    /\ gains' = <<>>
    /\ master' = NoBuffer
    /\ error' = NoError
    /\ pc' = "decode"
    /\ UNCHANGED tracks

\* handleMix up to its await: nothing happens for an empty playlist.
handleMix ==
    /\ pc = "App"
    /\ Len(settled) < MaxMixes
    /\ \E list \in MixPlaylists :
          IF Len(list) = 0
          THEN /\ playlist' = list
               /\ UNCHANGED <<tracks, decoder, entryIndex, analyzedTracks, decodeCalls,
                              events, offlineCtx, gains, master, error, pc>>
               /\ UNCHANGED <<caller, app>>
          ELSE /\ CallGenerateMasterBuffer(list)
               /\ caller' = "handleMix"
               /\ app' = [app EXCEPT !.isMixing = TRUE, !.statusMessage = "mixing"]
    /\ UNCHANGED <<encoderCalls, settled>>
    /\ UNCHANGED <<wavVars, cueVars, normVars, mixVars, mp3Vars, pairVars, uiVars>>

\* renderMix up to its await.
renderMix ==
    /\ pc = "App"
    /\ Len(settled) < MaxMixes
    /\ \E list \in MixPlaylists : CallGenerateMasterBuffer(list)
    /\ caller' = "renderMix"
    /\ UNCHANGED <<app, encoderCalls, settled>>
    /\ UNCHANGED <<wavVars, cueVars, normVars, mixVars, mp3Vars, pairVars, uiVars>>

\* An invocation of an encoder on a buffer that call number `call` returned.
EncoderCall(encoder, buffer, call) ==
    [encoder |-> encoder, buffer |-> buffer, call |-> call]

\* renderMix that encodes whatever generateMasterBuffer settled with.
renderMixSettles_encodesAnyway ==
    /\ pc \in {"done", "failed"}
    /\ caller = "renderMix"
    /\ encoderCalls' = Append(encoderCalls,
                              EncoderCall("bufferToWav", master, Len(settled) + 1))
    /\ settled' = Append(settled, IF pc = "done" THEN "resolved" ELSE "rejected")
    /\ caller' = "none"
    /\ pc' = "App"
    /\ UNCHANGED <<app, requestVars, wavVars, cueVars, normVars, mixVars, mp3Vars,
                   pairVars, uiVars>>

\* renderMix from its await on: bufferToWav(buffer) when the call resolved;
\* a rejection passes through to renderMix's own caller.
renderMixSettles ==
    /\ pc \in {"done", "failed"}
    /\ caller = "renderMix"
    /\ IF pc = "done"
       THEN /\ encoderCalls' = Append(encoderCalls,
                                      EncoderCall("bufferToWav", master, Len(settled) + 1))
            /\ settled' = Append(settled, "resolved")
       ELSE /\ encoderCalls' = encoderCalls
            /\ settled' = Append(settled, "rejected")
    /\ caller' = "none"
    /\ pc' = "App"
    /\ UNCHANGED <<app, requestVars, wavVars, cueVars, normVars, mixVars, mp3Vars,
                   pairVars, uiVars>>

\* handleMix whose catch block drops the previous mix.
handleMixSettles_clearsMaster ==
    /\ pc \in {"done", "failed"}
    /\ caller = "handleMix"
    /\ LET n == Len(settled) + 1
       IN  IF pc = "done"
           THEN /\ app' = [app EXCEPT
                               !.masterBuffer = master,
                               !.masterCall = n,
                               !.urlsRevoked = IF app.previousWavUrl # 0
                                               THEN @ \cup {app.previousWavUrl}
                                               ELSE @,
                               !.urlsCreated = @ \cup {n},
                               !.previousWavUrl = n,
                               !.downloadWavUrl = n,
                               !.history = SubSeq(<<n>> \o @, 1, Min(10, Len(@) + 1)),
                               !.statusMessage = "complete",
                               !.isMixing = FALSE]
                /\ encoderCalls' = Append(encoderCalls,
                                          EncoderCall("bufferToWav", master, n))
                /\ settled' = Append(settled, "resolved")
           ELSE /\ app' = [app EXCEPT !.masterBuffer = NoBuffer,
                                      !.downloadWavUrl = 0,
                                      !.statusMessage = "error",
                                      !.isMixing = FALSE]
                /\ encoderCalls' = encoderCalls
                /\ settled' = Append(settled, "rejected")
    /\ caller' = "none"
    /\ pc' = "App"
    /\ UNCHANGED <<requestVars, wavVars, cueVars, normVars, mixVars, mp3Vars,
                   pairVars, uiVars>>

\* handleMix from its await on: the try block when the call resolved, the
\* catch block when it rejected, and the finally block.
handleMixSettles ==
    /\ pc \in {"done", "failed"}
    /\ caller = "handleMix"
    /\ LET n == Len(settled) + 1
       IN  IF pc = "done"
           THEN /\ app' = [app EXCEPT
                               !.masterBuffer = master,
                               !.masterCall = n,
                               !.urlsRevoked = IF app.previousWavUrl # 0
                                               THEN @ \cup {app.previousWavUrl}
                                               ELSE @,
                               !.urlsCreated = @ \cup {n},
                               !.previousWavUrl = n,
                               !.downloadWavUrl = n,
                               !.history = SubSeq(<<n>> \o @, 1, Min(10, Len(@) + 1)),
                               !.statusMessage = "complete",
                               !.isMixing = FALSE]
                /\ encoderCalls' = Append(encoderCalls,
                                          EncoderCall("bufferToWav", master, n))
                /\ settled' = Append(settled, "resolved")
           ELSE /\ app' = [app EXCEPT !.statusMessage = "error", !.isMixing = FALSE]
                /\ encoderCalls' = encoderCalls
                /\ settled' = Append(settled, "rejected")
    /\ caller' = "none"
    /\ pc' = "App"
    /\ UNCHANGED <<requestVars, wavVars, cueVars, normVars, mixVars, mp3Vars,
                   pairVars, uiVars>>

\* handleDownloadMp3 with its timeout callback: bufferToMp3(masterBuffer),
\* which throws at once when window.lamejs is missing.
handleDownloadMp3 ==
    /\ pc = "App"
    /\ app.masterBuffer # NoBuffer
    /\ Len(encoderCalls) < MaxEncoderCalls
    /\ encoderCalls' = Append(encoderCalls,
                              EncoderCall("bufferToMp3", app.masterBuffer, app.masterCall))
    /\ app' = [app EXCEPT !.statusMessage = IF lamejs THEN "mp3" ELSE "mp3 error"]
    /\ UNCHANGED <<caller, settled, pc>>
    /\ UNCHANGED <<requestVars, wavVars, cueVars, normVars, mixVars, mp3Vars,
                   pairVars, uiVars>>

InitMix ==
    /\ pc = "App"
    /\ caller = "none"
    /\ app = InitialApp
    /\ encoderCalls = <<>>
    /\ settled = <<>>
    /\ NoRequest
    /\ NoWav
    /\ NoCueAnalysis
    /\ NoNormalize
    /\ NoMixPointCall
    /\ NoMp3
    /\ NoPair
    /\ NoUi

NextMix ==
    \/ handleMix
    \/ renderMix
    \/ Next
    \/ handleMixSettles
    \/ renderMixSettles
    \/ handleDownloadMp3

SpecMix == InitMix /\ [][NextMix]_vars

----------------------------------------------------------------------------
(* Concurrent calls of generateMasterBuffer on the one audioProcessor.  A    *)
(* call's locals are requests[r]; what a track's file decodes and            *)
(* normalizes to is fixed by files, so that two calls can be compared.       *)

\* The library of the concurrent calls.
PairLibrary ==
    << [id |-> "m", type |-> "MUSIC"],
       [id |-> "v", type |-> "VOICE"] >>

\* Half-second frames: a programme with a four-frame quiet tail, and a clip
\* trimmed to nothing.
MusicFiles ==
    { [data |-> <<800, 800, 800, 800, 100, 100, 100, 100>>, period |-> 1, inexact |-> FALSE],
      [data |-> <<0, 800>>, period |-> 1, inexact |-> FALSE],
      Undecodable }

\* A spoken clip of 1 second and one of a single loud frame.
VoiceFiles ==
    { [data |-> <<800, 800, 800>>, period |-> 1, inexact |-> FALSE],
      [data |-> <<300>>, period |-> 1, inexact |-> FALSE] }

PairFiles == { [m |-> a, v |-> b] : a \in MusicFiles, b \in VoiceFiles }

\* The entry resolved as a track of its declared category.
ResolvedTrack_declaredType(entry, ts) ==
    IF trackMapGet(ts, entry.trackId) = NoTrack
    THEN NoTrack
    ELSE [id |-> entry.trackId, type |-> entry.type]

\* const track = trackMap.get(entry.trackId)
ResolvedTrack(entry, ts) == trackMapGet(ts, entry.trackId)

\* The call whose analyzedTracks a call pushes to, were the array a field
\* of the shared instance.
AnalyzedOf_instance(r) == 1

\* The call whose analyzedTracks call r pushes to: analyzedTracks is a
\* const local of the call.
AnalyzedOf(r) == r

\* The locals of a call that has just been made.
NewRequest(list, ts, settings) ==
    [ playlist |-> list,
      tracks |-> ts,
      settings |-> settings,
      entryIndex |-> 1,
      analyzedTracks |-> <<>>,
      events |-> <<>>,
      offlineCtx |-> NoContext,
      gains |-> <<>>,
      master |-> NoBuffer,
      error |-> NoError,
      pc |-> "decode" ]

\* One iteration of call r's decode loop, from one suspension to the next.
CallDecodeStep(r) ==
    /\ requests[r].pc = "decode"
    /\ requests[r].entryIndex <= Len(requests[r].playlist)
    /\ LET entry == requests[r].playlist[requests[r].entryIndex]
           track == ResolvedTrack(entry, requests[r].tracks)
       IN  IF track = NoTrack
           THEN requests' = [requests EXCEPT ![r].entryIndex = @ + 1]
           ELSE IF files[track.id] = Undecodable
                THEN requests' = [requests EXCEPT ![r].pc = "failed",
                                                  ![r].error = DecodeError]
                ELSE requests' =
                         [requests EXCEPT
                             ![AnalyzedOf(r)].analyzedTracks =
                                 Append(@, AnalyzeTrack(files[track.id], track)),
                             ![r].entryIndex = @ + 1]
    /\ UNCHANGED <<files, requestVars, wavVars, cueVars, normVars, mixVars,
                   mp3Vars, appVars, uiVars, pc>>

CallReturnSilent(r) ==
    /\ requests[r].pc = "decode"
    /\ requests[r].entryIndex > Len(requests[r].playlist)
    /\ requests[r].analyzedTracks = <<>>
    /\ requests' = [requests EXCEPT ![r].master = SilentMaster, ![r].pc = "done"]
    /\ UNCHANGED <<files, requestVars, wavVars, cueVars, normVars, mixVars,
                   mp3Vars, appVars, uiVars, pc>>

CallSchedule(r) ==
    /\ requests[r].pc = "decode"
    /\ requests[r].entryIndex > Len(requests[r].playlist)
    /\ requests[r].analyzedTracks # <<>>
    /\ LET evts == Timeline(requests[r].analyzedTracks)
       IN  IF ScheduleThrows(evts)
           THEN requests' = [requests EXCEPT
                                ![r].events = evts,
                                ![r].error = [name |-> "RangeError"],
                                ![r].pc = "failed"]
           ELSE requests' = [requests EXCEPT
                                ![r].events = evts,
                                ![r].offlineCtx = ContextFor(evts),
                                ![r].gains = [index \in DOMAIN evts |->
                                                 Automation(evts, index)],
                                ![r].pc = "rendering"]
    /\ UNCHANGED <<files, requestVars, wavVars, cueVars, normVars, mixVars,
                   mp3Vars, appVars, uiVars, pc>>

CallRenderDone(r) ==
    /\ requests[r].pc = "rendering"
    /\ requests' = [requests EXCEPT
                       ![r].master =
                           [ numberOfChannels |-> requests[r].offlineCtx.numberOfChannels,
                             length |-> requests[r].offlineCtx.length,
                             sampleRate |-> requests[r].offlineCtx.sampleRate,
                             sources |-> DOMAIN requests[r].events ],
                       ![r].pc = "done"]
    /\ UNCHANGED <<files, requestVars, wavVars, cueVars, normVars, mixVars,
                   mp3Vars, appVars, uiVars, pc>>

NextPair ==
    \E r \in DOMAIN requests :
        \/ CallDecodeStep(r)
        \/ CallReturnSilent(r)
        \/ CallSchedule(r)
        \/ CallRenderDone(r)

\* Two calls have been made over the library and the given playlists.
PairStart(list1, settings1, list2, settings2) ==
    /\ files \in PairFiles
    /\ requests = << NewRequest(list1, PairLibrary, settings1),
                     NewRequest(list2, PairLibrary, settings2) >>
    /\ pc = "calls"
    /\ NoRequest
    /\ NoWav
    /\ NoCueAnalysis
    /\ NoNormalize
    /\ NoMixPointCall
    /\ NoMp3
    /\ NoApp
    /\ NoUi

\* The trackIds a playlist entry of the concurrent calls may carry.
PairIds == {"m", "v", UnknownId}

\* Playlists of up to n entries that carry a trackId alone.
PlainPlaylists(n) ==
    UNION { [1..len -> [trackId : PairIds]] : len \in 0..n }

\* Two calls with any two playlists.
InitPair ==
    \E list1 \in PlainPlaylists(MaxPairEntries), list2 \in PlainPlaylists(MaxPairEntries) :
        PairStart(list1, "none", list2, "none")

SpecPair == InitPair /\ [][NextPair]_vars

\* The entry names a track of the list.
Known(entry, ts) == \E i \in DOMAIN ts : ts[i].id = entry.trackId

\* The playlist with the entries of unknown tracks removed.
WithoutUnknown(list, ts) == SelectSeq(list, LAMBDA entry : Known(entry, ts))

\* A call with any playlist and a call with the same playlist less its
\* entries of unknown tracks.
InitSkip ==
    \E list \in PlainPlaylists(MaxSkipEntries) :
        PairStart(list, "none", WithoutUnknown(list, PairLibrary), "none")

SpecSkip == InitSkip /\ [][NextPair]_vars

\* An entry as the App adds one for a track: the category copied from the
\* track, crossfadeDuration 1 (here 2 ticks).
GeneratedEntry(id, ts) ==
    [ trackId |-> id,
      type |-> IF trackMapGet(ts, id) = NoTrack THEN "OTHER"
               ELSE trackMapGet(ts, id).type,
      crossfadeDuration |-> 2 ]

\* Entries for a trackId with any declared category and crossfade hint.
HintedEntries(id) ==
    [trackId : {id}, type : {"MUSIC", "VOICE"}, crossfadeDuration : {0, 6}]

\* The settings argument: absent, or the App's settings.
SettingsValues == {"none", "settings"}

\* A call with the generated playlist and no settings, and a call with the
\* same trackIds under any hints and settings.
InitHints ==
    \E ids \in UNION { [1..len -> PairIds] : len \in 0..MaxHintEntries } :
        \E list2 \in { l \in [DOMAIN ids -> UNION {HintedEntries(id) : id \in PairIds}] :
                            \A k \in DOMAIN ids : l[k].trackId = ids[k] },
           settings2 \in SettingsValues :
            PairStart([k \in DOMAIN ids |-> GeneratedEntry(ids[k], PairLibrary)], "none",
                      list2, settings2)

SpecHints == InitHints /\ [][NextPair]_vars

----------------------------------------------------------------------------
(* bufferToWav. *)

\* Sample values an encoded buffer is drawn from, in thousandths: beyond
\* full scale on both sides, at -1, at -0.5 and on both sides of it.
WavSamples == {-1200, -1000, -600, -500, -250, 0, 700, 1200}

\* x | 0 for the quotient a / b, b > 0: truncation toward zero.
Truncate(a, b) == IF a >= 0 THEN a \div b ELSE -((-a) \div b)

\* The 16-bit two's complement value DataView.setInt16 stores.
Int16(x) == ((x + 32768) % 65536) - 32768

\* sample = Math.max(-1, Math.min(1, channels[i][pos]));
\* sample = (0.5 + sample < 0 ? sample * 32768 : sample * 32767) | 0
wavSample(raw) ==
    LET sample == Max(-1000, Min(1000, raw))
    IN  IF 500 + sample < 0
        THEN Truncate(sample * 32768, 1000)
        ELSE Truncate(sample * 32767, 1000)

\* setUint16 and setUint32: the field is written at pos and pos moves on.
setUint(w, size, data) ==
    [ header |-> Append(w.header, [at |-> w.pos, size |-> size, data |-> data]),
      pos |-> w.pos + size ]

\* The header writes of bufferToWav, in order; the result holds the fields
\* and the value pos is left with.
WaveHeader(buf) ==
    LET numOfChan == buf.numberOfChannels
        length == buf.length * numOfChan * 2 + HeaderBytes
        w0 == [header |-> <<>>, pos |-> 0]
        w1 == setUint(w0, 4, 1179011410)                       \* "RIFF"
        w2 == setUint(w1, 4, length - 8)
        w3 == setUint(w2, 4, 1163280727)                       \* "WAVE"
        w4 == setUint(w3, 4, 544501094)                        \* "fmt "
        w5 == setUint(w4, 4, 16)
        w6 == setUint(w5, 2, 1)
        w7 == setUint(w6, 2, numOfChan)
        w8 == setUint(w7, 4, buf.sampleRate)
        w9 == setUint(w8, 4, buf.sampleRate * 2 * numOfChan)
        w10 == setUint(w9, 2, numOfChan * 2)
        w11 == setUint(w10, 2, 16)
        w12 == setUint(w11, 4, 1635017060)                     \* "data"
    IN  setUint(w12, 4, length - w12.pos - 4)

\* Buffers of `lead` frames all holding one value, followed by up to
\* MaxWavSamples further samples over 1 or 2 channels.
WavBuffers(lead) ==
    { [ numberOfChannels |-> c,
        length |-> lead + n,
        sampleRate |-> MasterRate,
        channels |-> [i \in 1..c |-> [k \in 1..lead |-> v] \o tail[i]] ] :
        <<c, n, tail, v>> \in
            UNION { UNION { { <<cc, nn, t, vv>> :
                                t \in [1..cc -> [1..nn -> WavSamples]],
                                vv \in IF lead = 0 THEN {0} ELSE WavSamples } :
                            nn \in { m \in 0..MaxWavSamples :
                                       m * cc <= MaxWavSamples /\ lead + m > 0 } } :
                    cc \in 1..2 } }

\* The data word, counted from 1, that the two bytes at byteOffset are.
WordAt(byteOffset) == (byteOffset - HeaderBytes) \div 2 + 1

\* The header is written; the ArrayBuffer behind view starts zeroed.
WriteHeader ==
    /\ pc = "bufferToWav"
    /\ LET w == WaveHeader(abuffer)
       IN  /\ view' = [ header |-> w.header,
                        data |-> [m \in 1..(abuffer.length * abuffer.numberOfChannels) |-> 0] ]
           /\ pos' = w.pos
    /\ offset' = 0
    /\ pc' = "samples"
    /\ UNCHANGED <<abuffer, requestVars, cueVars, extVars>>

\* One iteration of while (pos < len): a sample of every channel is read at
\* frame pos and written at byte 44 + offset, which is data word offset / 2.
WriteFrame ==
    /\ pc = "samples"
    /\ pos < abuffer.length
    /\ LET numOfChan == abuffer.numberOfChannels
           word(i) == WordAt(HeaderBytes + offset + 2 * i)
       IN  view' = [view EXCEPT !.data =
                        [m \in DOMAIN view.data |->
                            IF \E i \in 0..(numOfChan - 1) : m = word(i)
                            THEN LET i == CHOOSE j \in 0..(numOfChan - 1) : m = word(j)
                                 IN  Int16(wavSample(abuffer.channels[i + 1][pos + 1]))
                            ELSE view.data[m]]]
    /\ offset' = offset + 2 * abuffer.numberOfChannels
    /\ pos' = pos + 1
    /\ UNCHANGED <<abuffer, requestVars, cueVars, pc, extVars>>

\* return new Blob([buffer], {type: "audio/wav"})
ReturnBlob ==
    /\ pc = "samples"
    /\ pos >= abuffer.length
    /\ pc' = "blob"
    /\ UNCHANGED <<wavVars, requestVars, cueVars, extVars>>

InitWav ==
    /\ abuffer \in WavBuffers(0) \cup WavBuffers(HeaderBytes)
    /\ view = NoView
    /\ pos = 0
    /\ offset = 0
    /\ pc = "bufferToWav"
    /\ NoRequest
    /\ NoCueAnalysis
    /\ NoNormalize
    /\ NoMixPointCall
    /\ NoMp3
    /\ NoApp
    /\ NoPair
    /\ NoUi

NextWav == WriteHeader \/ WriteFrame \/ ReturnBlob

SpecWav == InitWav /\ [][NextWav]_vars

----------------------------------------------------------------------------
(* bufferToMp3. *)

\* Silent buffers of whole blocks, and of one frame or one frame less than
\* a block beyond them, over 1 or 2 channels.
LongMp3Buffers ==
    { [ numberOfChannels |-> c,
        length |-> b * BlockSize + d,
        sampleRate |-> MasterRate,
        channels |-> [i \in 1..c |-> [k \in 1..(b * BlockSize + d) |-> 0]] ] :
        c \in 1..2, b \in 0..MaxMp3Blocks, d \in {0, 1, BlockSize - 1} }

\* Buffers of up to MaxMp3Samples samples, of any values.
ShortMp3Buffers ==
    { [numberOfChannels |-> c, length |-> n, sampleRate |-> MasterRate, channels |-> ch] :
        <<c, n, ch>> \in
            UNION { { <<cc, nn, h>> : h \in [1..cc -> [1..nn -> WavSamples]] } :
                    <<cc, nn>> \in { x \in (1..2) \X (1..MaxMp3Samples) :
                                       x[1] * x[2] <= MaxMp3Samples } } }

Mp3Buffers == LongMp3Buffers \cup ShortMp3Buffers

\* let sL = Math.max(-1, Math.min(1, leftData[i + j]));
\* leftInt16[j] = sL < 0 ? sL * 0x8000 : sL * 0x7FFF, the store to the
\* Int16Array truncating toward zero.
mp3Sample(raw) ==
    LET s == Max(-1000, Min(1000, raw))
    IN  IF s < 0
        THEN Int16(Truncate(s * 32768, 1000))
        ELSE Int16(Truncate(s * 32767, 1000))

\* The encodeBuffer call of the block at frame i: the subarrays of size
\* scaled samples of channel 0 and of channel 1, or of channel 0 again for a
\* mono buffer, and the length of the chunk the encoder returns.
EncodeBufferCall(buffer, i, size, chunk) ==
    LET leftData == buffer.channels[1]
        rightData == IF buffer.numberOfChannels > 1 THEN buffer.channels[2] ELSE leftData
    IN  [ op |-> "encodeBuffer", from |-> i, size |-> size,
          left |-> [j \in 1..size |-> mp3Sample(leftData[i + j])],
          right |-> [j \in 1..size |-> mp3Sample(rightData[i + j])],
          chunk |-> chunk ]

\* The loop body that hands the encoder a whole block whatever is left.
EncodeBlock_wholeBlocks ==
    /\ pc = "mp3blocks"
    /\ mp3.i < mbuffer.length
    /\ LET call == Len(mp3.ops) + 1
       IN  \E chunk \in {0, 1} :
              mp3' = [mp3 EXCEPT
                         !.read = @ + BlockSize,
                         !.ops = Append(@, [op |-> "encodeBuffer", from |-> mp3.i,
                                            size |-> BlockSize, left |-> <<>>,
                                            right |-> <<>>, chunk |-> chunk]),
                         !.mp3Data = IF chunk > 0 THEN Append(@, call) ELSE @,
                         !.i = @ + BlockSize]
    /\ UNCHANGED <<lamejs, mbuffer, pc>>
    /\ UNCHANGED <<requestVars, wavVars, cueVars, normVars, mixVars, appVars, pairVars, uiVars>>

\* bufferToMp3's locals once the encoder has been made.
Mp3Locals(encoder) ==
    [ i |-> 0,
      ops |-> encoder,
      read |-> 0,
      mp3Data |-> <<>>,
      thrown |-> FALSE,
      blob |-> <<>> ]

\* bufferToMp3 that makes its encoder without looking for window.lamejs.
bufferToMp3_unchecked ==
    /\ pc = "bufferToMp3"
    /\ mp3' = Mp3Locals(<< [op |-> "Mp3Encoder", channels |-> mbuffer.numberOfChannels,
                            sampleRate |-> mbuffer.sampleRate, kbps |-> Kbps] >>)
    /\ pc' = "mp3blocks"
    /\ UNCHANGED <<lamejs, mbuffer>>
    /\ UNCHANGED <<requestVars, wavVars, cueVars, normVars, mixVars, appVars, pairVars, uiVars>>

\* bufferToMp3 up to its loop: it throws when window.lamejs is missing,
\* before the encoder is made and before any channel data is fetched.
bufferToMp3 ==
    /\ pc = "bufferToMp3"
    /\ IF ~lamejs
       THEN /\ mp3' = [Mp3Locals(<<>>) EXCEPT !.thrown = TRUE]
            /\ pc' = "mp3failed"
       ELSE /\ mp3' = Mp3Locals(<< [op |-> "Mp3Encoder",
                                    channels |-> mbuffer.numberOfChannels,
                                    sampleRate |-> mbuffer.sampleRate,
                                    kbps |-> Kbps] >>)
            /\ pc' = "mp3blocks"
    /\ UNCHANGED <<lamejs, mbuffer>>
    /\ UNCHANGED <<requestVars, wavVars, cueVars, normVars, mixVars, appVars, pairVars, uiVars>>

\* One iteration of for (i = 0; i < samples; i += blockSize): size frames
\* are scaled and handed to encodeBuffer, whose chunk is kept when it is not
\* empty.
EncodeBlock ==
    /\ pc = "mp3blocks"
    /\ mp3.i < mbuffer.length
    /\ LET end == Min(mp3.i + BlockSize, mbuffer.length)
           size == end - mp3.i
           call == Len(mp3.ops) + 1
       IN  \E chunk \in {0, 1} :
              mp3' = [mp3 EXCEPT
                         !.read = @ + size,
                         !.ops = Append(@, EncodeBufferCall(mbuffer, mp3.i, size, chunk)),
                         !.mp3Data = IF chunk > 0 THEN Append(@, call) ELSE @,
                         !.i = @ + BlockSize]
    /\ UNCHANGED <<lamejs, mbuffer, pc>>
    /\ UNCHANGED <<requestVars, wavVars, cueVars, normVars, mixVars, appVars, pairVars, uiVars>>

\* mp3Encoder.flush() and return new Blob(mp3Data, {type: "audio/mp3"})
FlushAndReturn ==
    /\ pc = "mp3blocks"
    /\ mp3.i >= mbuffer.length
    /\ LET call == Len(mp3.ops) + 1
       IN  \E chunk \in {0, 1} :
              LET data == IF chunk > 0 THEN Append(mp3.mp3Data, call) ELSE mp3.mp3Data
              IN  mp3' = [mp3 EXCEPT
                             !.ops = Append(@, [op |-> "flush", chunk |-> chunk]),
                             !.mp3Data = data,
                             !.blob = data]
    /\ pc' = "mp3blob"
    /\ UNCHANGED <<lamejs, mbuffer>>
    /\ UNCHANGED <<requestVars, wavVars, cueVars, normVars, mixVars, appVars, pairVars, uiVars>>

NextMp3 == bufferToMp3 \/ EncodeBlock \/ FlushAndReturn

\* A few buffers of one frame and of 45 frames, over 1 or 2 channels.
FewWavBuffers ==
    { [ numberOfChannels |-> c,
        length |-> lead + 1,
        sampleRate |-> MasterRate,
        channels |-> [i \in 1..c |-> [k \in 1..lead |-> v] \o <<w>>] ] :
        c \in 1..2, lead \in {0, HeaderBytes}, v \in {0, -250}, w \in {-600, 700} }

\* One operation of the audioProcessor is called, with window.lamejs there
\* or not: bufferToMp3, bufferToWav or generateMasterBuffer.
InitEncoders ==
    /\ lamejs \in BOOLEAN
    /\ mp3 = NoEncoding
    /\ NoCueAnalysis
    /\ NoNormalize
    /\ NoMixPointCall
    /\ NoApp
    /\ NoPair
    /\ NoUi
    /\ \/ /\ pc = "bufferToMp3"
          /\ mbuffer \in Mp3Buffers
          /\ NoRequest
          /\ NoWav
       \/ /\ pc = "bufferToWav"
          /\ abuffer \in FewWavBuffers
          /\ view = NoView
          /\ pos = 0
          /\ offset = 0
          /\ mbuffer = NoBuffer
          /\ NoRequest
       \/ /\ pc = "decode"
          /\ mbuffer = NoBuffer
          /\ NoWav
          /\ \E list \in MixPlaylists :
                /\ playlist = list
                /\ tracks = Library
                /\ decoder = [frames |-> MaxMixFrames, periods |-> {1}]
                /\ entryIndex = 1
                /\ analyzedTracks = <<>>
                /\ decodeCalls = 0
                /\ events = <<>>
                /\ offlineCtx = NoContext
                /\ gains = <<>>
                /\ master = NoBuffer
                /\ error = NoError

NextEncoders == NextMp3 \/ NextWav \/ Next

SpecEncoders == InitEncoders /\ [][NextEncoders]_vars

----------------------------------------------------------------------------
(* PlaylistView: the single-track preview and the transition preview. *)

\* The playlist shown: a transition exists after entry 1 only, entry 2 being
\* followed by an entry of an unknown track and entry 3 by nothing.
PreviewPlaylist == <<[trackId |-> "m"], [trackId |-> "v"], [trackId |-> UnknownId]>>

\* The state PlaylistView is mounted with.
InitialPreview ==
    [ audioRef |-> "null",           \* audioRef.current: "null" or "element"
      playing |-> FALSE,             \* whether the element is playing
      activeUrl |-> FALSE,           \* whether activeUrlRef.current holds a URL
      previewId |-> "null",
      isPreviewingTransition |-> "null",
      contexts |-> <<>>,             \* every AudioContext made, with its sources
      transitionContextRef |-> 0,    \* the context the ref holds, 0 for null
      transitionSourcesRef |-> 0,    \* the context whose sources the ref holds, 0 for []
      calls |-> <<>> ]               \* the playTransitionPreview calls made

\* stopAudio
stopAudio(pv) ==
    [pv EXCEPT !.playing = FALSE,
               !.audioRef = "null",
               !.activeUrl = FALSE,
               !.previewId = "null"]

\* stopTransitionPreview that leaves the context open.
stopTransitionPreview_keepsContext(pv) ==
    [pv EXCEPT !.contexts = [c \in DOMAIN pv.contexts |->
                                IF c = pv.transitionSourcesRef
                                   /\ pv.contexts[c].sources = "started"
                                THEN [pv.contexts[c] EXCEPT !.sources = "stopped"]
                                ELSE pv.contexts[c]],
               !.transitionSourcesRef = 0,
               !.transitionContextRef = 0,
               !.isPreviewingTransition = "null"]

\* stopTransitionPreview: the sources the ref holds are stopped, the context
\* the ref holds is closed, both refs are cleared.
stopTransitionPreview(pv) ==
    [pv EXCEPT !.contexts = [c \in DOMAIN pv.contexts |->
                                [ state |-> IF c = pv.transitionContextRef
                                            THEN "closed"
                                            ELSE pv.contexts[c].state,
                                  sources |-> IF c = pv.transitionSourcesRef
                                                 /\ pv.contexts[c].sources = "started"
                                              THEN "stopped"
                                              ELSE pv.contexts[c].sources ]],
               !.transitionSourcesRef = 0,
               !.transitionContextRef = 0,
               !.isPreviewingTransition = "null"]

\* playTransitionPreview(index) up to its first await: both previews are
\* stopped; with a successor and both tracks known, a context is made and
\* the decode of the first track begins.
playTransitionPreview ==
    /\ pc = "PlaylistView"
    /\ Len(preview.calls) < MaxPreviewCalls
    /\ \E index \in DOMAIN playlist :
          LET pv == stopTransitionPreview(stopAudio(preview))
              ctx == Len(pv.contexts) + 1
          IN  IF \/ index + 1 > Len(playlist)
                 \/ trackMapGet(tracks, playlist[index].trackId) = NoTrack
                 \/ trackMapGet(tracks, playlist[index + 1].trackId) = NoTrack
              THEN preview' = pv
              ELSE preview' =
                       [pv EXCEPT
                           !.isPreviewingTransition = playlist[index].trackId,
                           !.contexts = Append(@, [state |-> "running", sources |-> "none"]),
                           !.transitionContextRef = ctx,
                           !.calls = Append(@, [ctx |-> ctx, stage |-> "decodeA"])]
    /\ UNCHANGED <<auth, requestVars, wavVars, cueVars, normVars, mixVars, mp3Vars,
                   appVars, pairVars, pc>>

\* await audioProcessor.decodeTrack(trackA) resolves.
FirstDecodeResolves ==
    /\ pc = "PlaylistView"
    /\ \E k \in DOMAIN preview.calls :
          /\ preview.calls[k].stage = "decodeA"
          /\ preview' = [preview EXCEPT !.calls[k].stage = "decodeB"]
    /\ UNCHANGED <<auth, requestVars, wavVars, cueVars, normVars, mixVars, mp3Vars,
                   appVars, pairVars, pc>>

\* Either decode rejects: the catch block.
PreviewDecodeFails ==
    /\ pc = "PlaylistView"
    /\ \E k \in DOMAIN preview.calls :
          /\ preview.calls[k].stage \in {"decodeA", "decodeB"}
          /\ preview' = [preview EXCEPT !.calls[k].stage = "failed",
                                        !.isPreviewingTransition = "null"]
    /\ UNCHANGED <<auth, requestVars, wavVars, cueVars, normVars, mixVars, mp3Vars,
                   appVars, pairVars, pc>>

\* await audioProcessor.decodeTrack(trackB) resolves and the rest of the try
\* block runs on the call's own context: the two sources are started and
\* kept in the ref.  On a context closed meanwhile the nodes render nothing,
\* or making them throws and the catch block runs.
SecondDecodeResolves ==
    /\ pc = "PlaylistView"
    /\ \E k \in DOMAIN preview.calls :
          /\ preview.calls[k].stage = "decodeB"
          /\ LET ctx == preview.calls[k].ctx
             IN  \/ preview' = [preview EXCEPT
                                   !.contexts[ctx].sources = "started",
                                   !.transitionSourcesRef = ctx,
                                   !.calls[k].stage = "started"]
                 \/ /\ preview.contexts[ctx].state = "closed"
                    /\ preview' = [preview EXCEPT
                                      !.calls[k].stage = "failed",
                                      !.isPreviewingTransition = "null"]
    /\ UNCHANGED <<auth, requestVars, wavVars, cueVars, normVars, mixVars, mp3Vars,
                   appVars, pairVars, pc>>

\* sourceB.onended, after the source played to its end or was stopped.
SourceEnded ==
    /\ pc = "PlaylistView"
    /\ \E ctx \in DOMAIN preview.contexts :
          /\ \/ /\ preview.contexts[ctx].sources = "started"
                /\ preview.contexts[ctx].state = "running"
             \/ preview.contexts[ctx].sources = "stopped"
          /\ preview' = [preview EXCEPT
                            !.contexts[ctx] = [state |-> "closed", sources |-> "ended"],
                            !.isPreviewingTransition = "null"]
    /\ UNCHANGED <<auth, requestVars, wavVars, cueVars, normVars, mixVars, mp3Vars,
                   appVars, pairVars, pc>>

\* togglePreview(trackId): the transition preview is stopped; a click on
\* the track that is playing pauses it; otherwise the element is pointed at
\* the track's file and played, which the browser may refuse.
togglePreview ==
    /\ pc = "PlaylistView"
    /\ \E trackId \in {"m", "v", UnknownId} :
          LET pv == stopTransitionPreview(preview)
          IN  IF trackMapGet(tracks, trackId) = NoTrack
              THEN preview' = pv
              ELSE IF pv.previewId = trackId
                   THEN preview' = [pv EXCEPT !.playing = FALSE, !.previewId = "null"]
                   ELSE \E plays \in BOOLEAN :
                           preview' = [pv EXCEPT !.activeUrl = TRUE,
                                                 !.audioRef = "element",
                                                 !.playing = plays,
                                                 !.previewId = trackId]
    /\ UNCHANGED <<auth, requestVars, wavVars, cueVars, normVars, mixVars, mp3Vars,
                   appVars, pairVars, pc>>

\* audioRef.current.onended
AudioEnded ==
    /\ pc = "PlaylistView"
    /\ preview.playing
    /\ preview' = [preview EXCEPT !.playing = FALSE, !.previewId = "null"]
    /\ UNCHANGED <<auth, requestVars, wavVars, cueVars, normVars, mixVars, mp3Vars,
                   appVars, pairVars, pc>>

InitPreview ==
    /\ pc = "PlaylistView"
    /\ preview = InitialPreview
    /\ auth = NoAuth
    /\ playlist = PreviewPlaylist
    /\ tracks = Library
    /\ decoder = [frames |-> 0, periods |-> {}]
    /\ entryIndex = 1
    /\ analyzedTracks = <<>>
    /\ decodeCalls = 0
    /\ events = <<>>
    /\ offlineCtx = NoContext
    /\ gains = <<>>
    /\ master = NoBuffer
    /\ error = NoError
    /\ NoWav
    /\ NoCueAnalysis
    /\ NoNormalize
    /\ NoMixPointCall
    /\ NoMp3
    /\ NoApp
    /\ NoPair

NextPreview ==
    \/ playTransitionPreview
    \/ FirstDecodeResolves
    \/ SecondDecodeResolves
    \/ PreviewDecodeFails
    \/ SourceEnded
    \/ togglePreview
    \/ AudioEnded

SpecPreview == InitPreview /\ [][NextPreview]_vars

----------------------------------------------------------------------------
(* The App's screens: the studio, the login modal and the admin panel. *)

\* The user names and passwords typed into the login and new-user forms.
UserNames == {"admin", "ana", "rui"}
Passwords == {"admin", "pw"}

\* useState of view, showLogin, isAuthenticated and users, and the login
\* modal's own error flag.
InitialAuth ==
    [ view |-> "home",
      showLogin |-> FALSE,
      isAuthenticated |-> FALSE,
      users |-> <<[username |-> "admin", password |-> "admin", role |-> "admin"]>>,
      loginError |-> FALSE ]

\* handleLoginValidation
handleLoginValidation(u, p) ==
    \E i \in DOMAIN auth.users :
        auth.users[i].username = u /\ auth.users[i].password = p

\* The studio header's button: the admin panel for an authenticated user,
\* the login modal for anyone else.
OpenAdmin ==
    /\ pc = "Screens"
    /\ auth.view = "home"
    /\ auth' = IF auth.isAuthenticated
               THEN [auth EXCEPT !.view = "admin"]
               ELSE [auth EXCEPT !.showLogin = TRUE]
    /\ UNCHANGED <<preview, requestVars, wavVars, cueVars, normVars, mixVars, mp3Vars,
                   appVars, pairVars, pc>>

\* LoginModal's handleSubmit: onSuccess for credentials handleLoginValidation
\* accepts, the modal's error otherwise.
SubmitLogin ==
    /\ pc = "Screens"
    /\ auth.view = "home"
    /\ auth.showLogin
    /\ \E u \in UserNames, p \in Passwords :
          auth' = IF handleLoginValidation(u, p)
                  THEN [auth EXCEPT !.isAuthenticated = TRUE,
                                    !.showLogin = FALSE,
                                    !.view = "admin",
                                    !.loginError = FALSE]
                  ELSE [auth EXCEPT !.loginError = TRUE]
    /\ UNCHANGED <<preview, requestVars, wavVars, cueVars, normVars, mixVars, mp3Vars,
                   appVars, pairVars, pc>>

\* onClose of the login modal.
CloseLogin ==
    /\ pc = "Screens"
    /\ auth.view = "home"
    /\ auth.showLogin
    /\ auth' = [auth EXCEPT !.showLogin = FALSE, !.loginError = FALSE]
    /\ UNCHANGED <<preview, requestVars, wavVars, cueVars, normVars, mixVars, mp3Vars,
                   appVars, pairVars, pc>>

\* The admin header's logo and its button back to the studio.
BackToStudio ==
    /\ pc = "Screens"
    /\ auth.view = "admin"
    /\ auth' = [auth EXCEPT !.view = "home"]
    /\ UNCHANGED <<preview, requestVars, wavVars, cueVars, normVars, mixVars, mp3Vars,
                   appVars, pairVars, pc>>

\* A logout that leaves the admin panel on screen.
Logout_staysInAdmin ==
    /\ pc = "Screens"
    /\ auth.view = "admin"
    /\ auth' = [auth EXCEPT !.isAuthenticated = FALSE]
    /\ UNCHANGED <<preview, requestVars, wavVars, cueVars, normVars, mixVars, mp3Vars,
                   appVars, pairVars, pc>>

\* onLogout of the admin panel.
Logout ==
    /\ pc = "Screens"
    /\ auth.view = "admin"
    /\ auth' = [auth EXCEPT !.isAuthenticated = FALSE, !.view = "home"]
    /\ UNCHANGED <<preview, requestVars, wavVars, cueVars, normVars, mixVars, mp3Vars,
                   appVars, pairVars, pc>>

\* handleAddUser, from the admin panel's form: a taken user name is refused.
handleAddUser ==
    /\ pc = "Screens"
    /\ auth.view = "admin"
    /\ Len(auth.users) < MaxUsers
    /\ \E u \in UserNames, p \in Passwords :
          auth' = IF \E i \in DOMAIN auth.users : auth.users[i].username = u
                  THEN auth
                  ELSE [auth EXCEPT !.users =
                           Append(@, [username |-> u, password |-> p, role |-> "admin"])]
    /\ UNCHANGED <<preview, requestVars, wavVars, cueVars, normVars, mixVars, mp3Vars,
                   appVars, pairVars, pc>>

\* handleDeleteUser, from the admin panel's list: the last user stays.
handleDeleteUser ==
    /\ pc = "Screens"
    /\ auth.view = "admin"
    /\ \E i \in DOMAIN auth.users :
          auth' = IF Len(auth.users) <= 1
                  THEN auth
                  ELSE [auth EXCEPT !.users =
                           SelectSeq(@, LAMBDA user :
                                            user.username # auth.users[i].username)]
    /\ UNCHANGED <<preview, requestVars, wavVars, cueVars, normVars, mixVars, mp3Vars,
                   appVars, pairVars, pc>>

InitScreens ==
    /\ pc = "Screens"
    /\ auth = InitialAuth
    /\ preview = NoPreview
    /\ NoRequest
    /\ NoWav
    /\ NoCueAnalysis
    /\ NoNormalize
    /\ NoMixPointCall
    /\ NoMp3
    /\ NoApp
    /\ NoPair

NextScreens ==
    \/ OpenAdmin
    \/ SubmitLogin
    \/ CloseLogin
    \/ BackToStudio
    \/ Logout
    \/ handleAddUser
    \/ handleDeleteUser

SpecScreens == InitScreens /\ [][NextScreens]_vars

----------------------------------------------------------------------------
(* The normalization of one buffer. *)

InitNorm ==
    /\ nbuffer \in NormBuffers
    /\ normalized = NoBuffer
    /\ pc = "normalizeBuffer"
    /\ NoRequest
    /\ NoWav
    /\ NoCueAnalysis
    /\ NoMixPointCall
    /\ NoMp3
    /\ NoApp
    /\ NoPair
    /\ NoUi

NextNorm == normalizeBuffer

SpecNorm == InitNorm /\ [][NextNorm]_vars

----------------------------------------------------------------------------
(* The mix point of one clip. *)

\* Times, in ticks, the cue points of a clip are drawn from: they make fade
\* slopes and tails below, at and above 1.5 and 6 seconds.
CueTicks == {0, 1, 3, 4, 13, 16, 17}

\* The analyzed clips the timeline loop can meet: findCueOut is no earlier
\* than findCueIn and findMixPoint returns a time no later than cueOut.
MixClips ==
    { [type |-> t, cueIn |-> ci, cueOut |-> co, mixPoint15 |-> m15, mixPoint6 |-> m6] :
        <<t, ci, co, m15, m6>> \in
            { x \in TrackType \X CueTicks \X CueTicks \X CueTicks \X CueTicks :
                x[2] <= x[3] /\ x[4] <= x[3] /\ x[5] <= x[3] } }

\* const next = analyzedTracks[i + 1]: undefined for the last clip.
MixSuccessors == {NoTrack} \cup { [id |-> "successor", type |-> t] : t \in TrackType }

\* One pass of the loop body up to the effective mix point, for the clip
\* and successor of mixInput.
ComputeMixPoint ==
    /\ pc = "mixPoint"
    /\ mixPoint' = [effectiveMixPoint |->
                        EffectiveMixPoint(mixInput.current, mixInput.next)]
    /\ pc' = "mixed"
    /\ UNCHANGED <<mixInput, requestVars, wavVars, cueVars, normVars, mp3Vars,
                   appVars, pairVars, uiVars>>

InitMixPoint ==
    /\ mixInput \in [current : MixClips, next : MixSuccessors]
    /\ mixPoint = NoMixPoint
    /\ pc = "mixPoint"
    /\ NoRequest
    /\ NoWav
    /\ NoCueAnalysis
    /\ NoNormalize
    /\ NoMp3
    /\ NoApp
    /\ NoPair
    /\ NoUi

NextMixPoint == ComputeMixPoint

SpecMixPoint == InitMixPoint /\ [][NextMixPoint]_vars

----------------------------------------------------------------------------
(* The cue analysis of one buffer. *)

\* Channel-0 values of any sign in every band of levels, silence included.
CueSamples == {0, 30, -50, 100, -300, 800}

CueBuffers ==
    { [data |-> d, period |-> p, inexact |-> e] :
        d \in UNION { [1..len -> CueSamples] : len \in 0..MaxCueFrames },
        p \in {1, 3}, e \in BOOLEAN }

\* The four scans generateMasterBuffer runs on a decoded buffer.
AnalyzeCue ==
    /\ pc = "analyze"
    /\ LET cueOut == findCueOut(cueBuffer, CueOutThresholdDb)
       IN  cue' = [ cueIn |-> findCueIn(cueBuffer, CueInThresholdDb),
                    cueOut |-> cueOut,
                    mixPoint15 |-> findMixPoint(cueBuffer, cueOut, MixPoint15Db),
                    mixPoint6 |-> findMixPoint(cueBuffer, cueOut, MixPoint6Db) ]
    /\ pc' = "analyzed"
    /\ UNCHANGED <<cueBuffer, requestVars, wavVars, extVars>>

InitCue ==
    /\ cueBuffer \in CueBuffers
    /\ cue = NoCue
    /\ pc = "analyze"
    /\ NoRequest
    /\ NoWav
    /\ NoNormalize
    /\ NoMixPointCall
    /\ NoMp3
    /\ NoApp
    /\ NoPair
    /\ NoUi

NextCue == AnalyzeCue

SpecCue == InitCue /\ [][NextCue]_vars

----------------------------------------------------------------------------
(* decodeTrack and the cue analysis of the buffer it returns. *)

\* A normalized sample, a fraction of 1/800 of full scale, in thousandths of
\* full scale, rounded toward zero.
Thousandths(f) == Truncate(f[1] * 5, f[2] * 4)

\* The amplitudes, in thousandths, whose level is tabulated.
Tabulated == {0, 10, 30, 50, 100, 200, 300, 500, 600, 800, 891, 1000}

\* Sample values, in 1/800 of full scale, a decoded mono file is drawn from:
\* beside a peak of 800 they normalize to one amplitude in every band of
\* levels.
DecodedSamples == {-800, -270, 0, 9, 45, 90, 449, 800}

\* The mono buffers decodeAudioData delivers, of 1 to MaxDecodeFrames frames
\* of 0.5 or 1.5 seconds, whose normalized samples have a tabulated level.
MonoDecodes ==
    { b \in { [ numberOfChannels |-> 1, length |-> Len(d), channels |-> <<d>>,
                period |-> p, inexact |-> e ] :
                d \in UNION { [1..len -> DecodedSamples] : len \in 1..MaxDecodeFrames },
                p \in {1, 3}, e \in BOOLEAN } :
        \A j \in 1..b.length :
            Abs(Thousandths(<<b.channels[1][j] * NormGain(maxPeak(b))[1],
                              NormGain(maxPeak(b))[2]>>)) \in Tabulated }

\* The four scans generateMasterBuffer runs on the buffer decodeTrack has
\* normalized.
AnalyzeNormalized ==
    /\ pc = "normalized"
    /\ LET buffer == [ data |-> [j \in 1..normalized.length |->
                                    Thousandths(normalized.channels[1][j])],
                       period |-> nbuffer.period,
                       inexact |-> nbuffer.inexact ]
           cueOut == findCueOut(buffer, CueOutThresholdDb)
       IN  /\ cueBuffer' = buffer
           /\ cue' = [ cueIn |-> findCueIn(buffer, CueInThresholdDb),
                       cueOut |-> cueOut,
                       mixPoint15 |-> findMixPoint(buffer, cueOut, MixPoint15Db),
                       mixPoint6 |-> findMixPoint(buffer, cueOut, MixPoint6Db) ]
    /\ pc' = "analyzed"
    /\ UNCHANGED <<normVars, requestVars, wavVars, mixVars, mp3Vars, appVars, pairVars, uiVars>>

InitDecodeTrack ==
    /\ nbuffer \in MonoDecodes
    /\ normalized = NoBuffer
    /\ pc = "normalizeBuffer"
    /\ NoRequest
    /\ NoWav
    /\ NoCueAnalysis
    /\ NoMixPointCall
    /\ NoMp3
    /\ NoApp
    /\ NoPair
    /\ NoUi

NextDecodeTrack == normalizeBuffer \/ AnalyzeNormalized

SpecDecodeTrack == InitDecodeTrack /\ [][NextDecodeTrack]_vars

----------------------------------------------------------------------------
(* Properties of the timeline. *)

\* The request has run its timeline loop.
Built == pc \in {"rendering", "done", "failed"} /\ events # <<>>

\* C1: the cursor never moves backward: destStart[i+1] >= destStart[i] for
\* every pair of consecutive events.
CursorMonotonic ==
    Built => \A i \in 1..(Len(events) - 1) :
                 events[i + 1].destStart >= events[i].destStart

\* C4: the cursor never advances past the current clip's trimmed end:
\* destStart[i+1] <= destEnd[i], so the overlap handed to the renderer is
\* never negative.
CursorWithinClip ==
    Built => \A i \in 1..(Len(events) - 1) :
                 /\ events[i + 1].destStart <= events[i].destEnd
                 /\ events[i].destEnd - events[i + 1].destStart >= 0

\* A two-event timeline whose second clip starts inside the first.
CursorWithinClipWitness ==
    /\ Built
    /\ Len(events) = 2
    /\ events[2].destStart > 0
    /\ events[2].destStart < events[1].destEnd

\* A successor of the given category, as the timeline loop reads it.
Successor(type) == [id |-> "successor", type |-> type]

\* C7: the effective mix point of a clip whose successor is Voice is
\* max(cueIn, m - 1.5), m being its effective mix point before any other
\* successor or none; so before a Voice successor the cursor advance
\* effectiveMixPoint - cueIn is never negative.
VoicePullBack ==
    /\ \A i \in DOMAIN analyzedTracks :
          LET current == analyzedTracks[i]
              pulled == EffectiveMixPoint(current, Successor("VOICE"))
          IN  /\ \A type \in TrackType \ {"VOICE"} :
                    pulled = Max(current.cueIn,
                                 EffectiveMixPoint(current, Successor(type)) - 3)
              /\ pulled = Max(current.cueIn, EffectiveMixPoint(current, NoTrack) - 3)
              /\ pulled - current.cueIn >= 0
    /\ Built => \A i \in 1..(Len(events) - 1) :
                    analyzedTracks[i + 1].type = "VOICE" =>
                        events[i + 1].destStart >= events[i].destStart

\* A timeline in which a Voice clip follows a clip whose mix point it pulls
\* earlier by the full 1.5 seconds, and one in which the pull is clamped.
VoicePullBackWitness ==
    /\ Built
    /\ Len(events) = 2
    /\ analyzedTracks[2].type = "VOICE"
    /\ LET current == analyzedTracks[1]
           m == EffectiveMixPoint(current, NoTrack)
       IN  /\ m - 3 >= current.cueIn
           /\ events[2].destStart = m - 3 - current.cueIn
           /\ events[2].destStart < events[1].destEnd

----------------------------------------------------------------------------
(* Properties of the rendered master. *)

\* The gain the claim C9 describes at time t of an event ending at destEnd:
\* 1 until destEnd - 1.0, then falling linearly to 0 at destEnd.
TailFadeGain(destEnd, t) ==
    IF t <= destEnd - 2 THEN <<1, 1>> ELSE <<destEnd - t, 2>>

\* Equality of two fractions with positive denominators.
SameGain(g, h) == g[1] * h[2] = h[1] * g[2]

\* C9: a playlist that resolves to exactly one clip yields one event placed
\* at destStart 0, a master as long as the clip's cueOut - cueIn, and a gain
\* that is 1 until destEnd - 1.0 and then falls linearly to 0 at the end of
\* the master.
SingleClipMaster ==
    (entryIndex > Len(playlist) /\ Len(analyzedTracks) = 1 /\ pc # "decode") =>
        /\ pc # "failed"
        /\ Len(events) = 1
        /\ events[1].destStart = 0
        /\ offlineCtx.length =
               Frames(analyzedTracks[1].cueOut - analyzedTracks[1].cueIn, 44100)
        /\ pc = "done" => master.length = offlineCtx.length
        /\ \A t \in events[1].destStart..events[1].destEnd :
              SameGain(GainAt(gains[1], t), TailFadeGain(events[1].destEnd, t))

\* The events are scheduled on the offline context and none has thrown.
Scheduled == pc \in {"rendering", "done"} /\ events # <<>>

\* The gain C21 describes for event index at time t of its window: with an
\* overlap, 1 until the successor's destStart and then linear to 0 at
\* destEnd; for the last event, 1 until destEnd - 1.0 and then linear to 0
\* at destEnd; otherwise 1.
ClaimedEnvelope(evts, index, t) ==
    LET event == evts[index]
        overlap == IF index < Len(evts)
                   THEN event.destEnd - evts[index + 1].destStart
                   ELSE 0
    IN  IF overlap > 0
        THEN IF t <= evts[index + 1].destStart THEN <<1, 1>>
             ELSE <<event.destEnd - t, overlap>>
        ELSE IF index = Len(evts)
             THEN TailFadeGain(event.destEnd, t)
             ELSE <<1, 1>>

\* C21: every event's gain is 1 at destStart and follows one of three
\* shapes over its window: with an overlap > 0 with the successor, 1 until
\* the successor's destStart and then linear to 0 at destEnd; for the last
\* event, 1 until destEnd - 1.0 and then linear to 0 at destEnd; for an
\* event that is not last and has no overlap, 1 throughout.
GainEnvelopeShapes ==
    Scheduled =>
        \A index \in DOMAIN events :
            /\ SameGain(GainAt(gains[index], events[index].destStart), <<1, 1>>)
            /\ \A t \in events[index].destStart..events[index].destEnd :
                   SameGain(GainAt(gains[index], t),
                            ClaimedEnvelope(events, index, t))

\* The same for timelines whose cursor never moves backward and whose last
\* clip lasts at least the 1-second tail fade.
GainEnvelopeShapesOfLongClips ==
    (/\ Scheduled
     /\ \A i \in 1..(Len(events) - 1) : events[i + 1].destStart >= events[i].destStart
     /\ events[Len(events)].destEnd - events[Len(events)].destStart >= 2)
        => \A index \in DOMAIN events :
               \A t \in events[index].destStart..events[index].destEnd :
                   SameGain(GainAt(gains[index], t),
                            ClaimedEnvelope(events, index, t))

\* The fractions g and h sum to 1.
SumsToOne(g, h) == g[1] * h[2] + h[1] * g[2] = g[2] * h[2]

\* C22: in the crossfade region of two adjacent events i and i + 1, from
\* destStart[i + 1] to destEnd[i], the gain of event i and the gain of event
\* i + 1 sum to 1 at every instant.
ComplementaryRamps ==
    Scheduled =>
        \A i \in 1..(Len(events) - 1) :
            \A t \in events[i + 1].destStart..events[i].destEnd :
                SumsToOne(GainAt(gains[i], t), GainAt(gains[i + 1], t))

\* C25: every event fits inside the rendered master: destEnd[i] is at most
\* totalLength, the destEnd of the last event, for every event i.
EventsFitMaster ==
    Scheduled => \A i \in DOMAIN events :
                 events[i].destEnd <= events[Len(events)].destEnd

\* C26: the tail fade of the last event starts, at destEnd - 1.0, no earlier
\* than the event's own destStart and at no negative master time, whatever
\* the last clip's trimmed duration.
TailFadeInsideEvent ==
    Built =>
        LET last == events[Len(events)]
        IN  /\ last.destEnd - 2 >= last.destStart
            /\ last.destEnd - 2 >= 0

\* C10: when no entry resolves to a known track the request neither fails,
\* decodes nor renders, and returns a 2-channel buffer at 44,100 Hz of
\* exactly 44,100 frames, all zero.
EmptyPlaylistSilent ==
    Resolved(1) = {} =>
        /\ pc \in {"decode", "done"}
        /\ decodeCalls = 0
        /\ analyzedTracks = <<>>
        /\ events = <<>>
        /\ offlineCtx = NoContext
        /\ gains = <<>>
        /\ pc = "done" =>
              master = [ numberOfChannels |-> 2, length |-> 44100,
                         sampleRate |-> 44100, sources |-> {} ]

\* A request whose two entries both name unknown tracks has returned.
EmptyPlaylistSilentWitness ==
    /\ pc = "done"
    /\ Len(playlist) = 2
    /\ Resolved(1) = {}
    /\ master.length = 44100

----------------------------------------------------------------------------
(* Properties of failing requests. *)

\* The request failed in its decode loop.
DecodeFailed == pc = "failed" /\ error = DecodeError

\* C12: if decoding of a resolved clip fails, the request fails as a whole:
\* no buffer is returned, no later clip is decoded, no timeline is built or
\* rendered, and neither bufferToWav nor bufferToMp3 is invoked for that
\* request, by renderMix or by the App: every encoder invocation is on the
\* buffer of a call that resolved.
DecodeFailureAborts ==
    /\ DecodeFailed =>
          /\ master = NoBuffer
          /\ events = <<>>
          /\ offlineCtx = NoContext
          /\ gains = <<>>
          /\ decodeCalls = Cardinality({j \in 1..entryIndex : j \in Resolved(1)})
          /\ \A c \in DOMAIN encoderCalls : encoderCalls[c].call # Len(settled) + 1
    /\ \A c \in DOMAIN encoderCalls :
          /\ encoderCalls[c].buffer # NoBuffer
          /\ encoderCalls[c].call <= Len(settled) =>
                 settled[encoderCalls[c].call] = "resolved"

\* A second mix failed at its second clip and was rejected; the first had
\* been encoded.
DecodeFailureAbortsWitness ==
    /\ pc = "App"
    /\ settled = <<"resolved", "rejected">>
    /\ error = DecodeError
    /\ Len(playlist) = 2
    /\ entryIndex = 2
    /\ decodeCalls = 2
    /\ encoderCalls # <<>>

\* C13: when a clip's bytes cannot be decoded, the error generateMasterBuffer
\* rejects with carries the trackId of the entry that failed.
DecodeErrorNamesClip ==
    DecodeFailed =>
        /\ "trackId" \in DOMAIN error
        /\ error.trackId = playlist[entryIndex].trackId

----------------------------------------------------------------------------
(* Properties of concurrent calls. *)

\* The decode loop of a call that runs alone over list, from entry i on.
RECURSIVE AloneDecode(_, _, _, _)
AloneDecode(list, ts, i, analyzed) ==
    IF i > Len(list) THEN [failed |-> FALSE, analyzedTracks |-> analyzed]
    ELSE LET track == trackMapGet(ts, list[i].trackId)
         IN  IF track = NoTrack THEN AloneDecode(list, ts, i + 1, analyzed)
             ELSE IF files[track.id] = Undecodable
                  THEN [failed |-> TRUE, analyzedTracks |-> analyzed]
                  ELSE AloneDecode(list, ts, i + 1,
                                   Append(analyzed, AnalyzeTrack(files[track.id], track)))

\* What a call that runs alone over list ends with.
AloneOutcome(list, ts) ==
    LET d == AloneDecode(list, ts, 1, <<>>)
        evts == Timeline(d.analyzedTracks)
    IN  IF d.failed
        THEN [pc |-> "failed", events |-> <<>>, master |-> NoBuffer, error |-> DecodeError]
        ELSE IF d.analyzedTracks = <<>>
        THEN [pc |-> "done", events |-> <<>>, master |-> SilentMaster, error |-> NoError]
        ELSE IF ScheduleThrows(evts)
        THEN [pc |-> "failed", events |-> evts, master |-> NoBuffer,
              error |-> [name |-> "RangeError"]]
        ELSE [pc |-> "done", events |-> evts,
              master |-> [ numberOfChannels |-> 2,
                           length |-> Frames(evts[Len(evts)].destEnd, 44100),
                           sampleRate |-> 44100,
                           sources |-> DOMAIN evts ],
              error |-> NoError]

\* What call r has ended with.
Outcome(r) ==
    [ pc |-> requests[r].pc, events |-> requests[r].events,
      master |-> requests[r].master, error |-> requests[r].error ]

\* Call r is where a call running alone over its playlist would be.
AsAlone(r) ==
    LET req == requests[r]
        sofar == AloneDecode(SubSeq(req.playlist, 1, req.entryIndex - 1),
                             req.tracks, 1, <<>>)
    IN  /\ req.analyzedTracks = sofar.analyzedTracks
        /\ req.pc \in {"done", "failed"} =>
               Outcome(r) = AloneOutcome(req.playlist, req.tracks)
        /\ req.pc = "rendering" =>
               req.events = AloneOutcome(req.playlist, req.tracks).events

\* C19: two calls on the shared audioProcessor, interleaved in any way at
\* their suspension points, each return the master they return when run
\* alone: after every interleaving each call's locals are where a run alone
\* over its own playlist leaves them, whatever the other call has done.
IsolatedCalls ==
    \A r \in DOMAIN requests : AsAlone(r)

\* The second call is in the middle of its decode loop while the first,
\* made with another playlist, awaits its render.
IsolatedCallsWitness ==
    /\ requests # <<>>
    /\ requests[1].pc = "rendering"
    /\ requests[2].pc = "decode"
    /\ requests[2].entryIndex = 2
    /\ Len(requests[2].playlist) = 2
    /\ Len(requests[2].analyzedTracks) = 1
    /\ requests[1].playlist # requests[2].playlist

\* Call r has run its timeline loop.
CallBuilt(r) ==
    requests[r].pc \in {"rendering", "done", "failed"} /\ requests[r].events # <<>>

\* Call r has returned or failed.
Finished(r) == requests[r].pc \in {"done", "failed"}

\* C11: entries of unknown tracks are skipped without error: the call with
\* the playlist and the call with the playlist less those entries end with
\* the same timeline and outcome; the timeline has one event per resolved
\* entry, in playlist order, and each clip's advance is the one computed
\* with the next resolved entry as its successor.
UnknownSkipped ==
    requests # <<>> =>
        LET req == requests[1]
            resolved == WithoutUnknown(req.playlist, req.tracks)
            clip(k) == AnalyzeTrack(files[resolved[k].trackId],
                                    trackMapGet(req.tracks, resolved[k].trackId))
        IN  /\ (Finished(1) /\ Finished(2)) => Outcome(1) = Outcome(2)
            /\ (req.pc = "failed" /\ req.events = <<>>) =>
                   \E k \in DOMAIN resolved : files[resolved[k].trackId] = Undecodable
            /\ CallBuilt(1) =>
                   /\ Len(req.events) = Len(resolved)
                   /\ \A k \in DOMAIN resolved :
                          /\ req.analyzedTracks[k] = clip(k)
                          /\ req.events[k].sourceStart = clip(k).cueIn
                          /\ req.events[k].sourceEnd = clip(k).cueOut
                   /\ \A k \in 1..(Len(resolved) - 1) :
                          req.events[k + 1].destStart =
                              req.events[k].destStart
                                  + SafeTimeUntilMix(clip(k), clip(k + 1))

\* Both calls have returned for the playlist Music, unknown, Voice: the
\* Voice clip pulled the Music clip's mix point 1.5 seconds earlier.
UnknownSkippedWitness ==
    /\ requests # <<>>
    /\ requests[1].pc = "done"
    /\ requests[2].pc = "done"
    /\ Len(requests[1].playlist) = 3
    /\ requests[1].playlist[2].trackId = "x"
    /\ Len(requests[1].events) = 2
    /\ requests[1].analyzedTracks[2].type = "VOICE"
    /\ requests[1].events[2].destStart =
           EffectiveMixPoint(requests[1].analyzedTracks[1], NoTrack) - 3
               - requests[1].analyzedTracks[1].cueIn

----------------------------------------------------------------------------
(* The two-clip Music/Music scenarios. *)

TwoMusic ==
    /\ Built
    /\ Len(analyzedTracks) = 2
    /\ analyzedTracks[1].type = "MUSIC"
    /\ analyzedTracks[2].type = "MUSIC"

\* C6: when clip A is Music with fadeSlope >= 1.5 and tail > 6 and clip B is
\* Music, A's effective mix point is cueOut(A) - 6 and the overlap
\* destEnd(A) - destStart(B) is at most 6 seconds and at most
\* trimDuration(A).
LongTailOverlap ==
    LET A == analyzedTracks[1]
        B == analyzedTracks[2]
    IN  ( /\ TwoMusic
          /\ Abs(A.mixPoint15 - A.mixPoint6) >= 3
          /\ A.cueOut - A.mixPoint15 > 12 ) =>
            /\ EffectiveMixPoint(A, B) = A.cueOut - 12
            /\ events[2].destStart = A.cueOut - 12 - A.cueIn
            /\ events[1].destEnd - events[2].destStart <= 12
            /\ events[1].destEnd - events[2].destStart <= A.cueOut - A.cueIn

\* Such a request has been scheduled, clip A starting after its beginning.
LongTailOverlapWitness ==
    LET A == analyzedTracks[1]
    IN  /\ TwoMusic
        /\ Abs(A.mixPoint15 - A.mixPoint6) >= 3
        /\ A.cueOut - A.mixPoint15 > 12
        /\ A.cueIn > 0
        /\ events[1].destEnd - events[2].destStart = 12

TenSeconds ==
    /\ TwoMusic
    /\ \A i \in 1..2 : analyzedTracks[i].cueIn = 0 /\ analyzedTracks[i].cueOut = 20

\* C8 as stated: with cueIn = 0 and cueOut = 10 for both clips the master
\* is strictly shorter than 20 seconds and at least 10 + safeTimeUntilMix of
\* the first clip long.
TenSecondsStrictlyShorter ==
    TenSeconds =>
        /\ events[2].destEnd < 40
        /\ events[2].destEnd >=
               20 + SafeTimeUntilMix(analyzedTracks[1], analyzedTracks[2])

\* C8 as amended: the master is at most 20 seconds long, exactly 20 seconds
\* when and only when the first clip's mixPoint15 is its cueOut, and exactly
\* 10 + safeTimeUntilMix of the first clip long.
TenSecondsAtMost ==
    TenSeconds =>
        /\ events[2].destEnd <= 40
        /\ events[2].destEnd = 40 <=> analyzedTracks[1].mixPoint15 = 20
        /\ events[2].destEnd =
               20 + SafeTimeUntilMix(analyzedTracks[1], analyzedTracks[2])
        /\ events[2].destEnd >= 20

\* A ten-second pair that crossfades has been rendered.
TenSecondsWitness ==
    /\ TenSeconds
    /\ pc = "done"
    /\ events[2].destEnd < 40
    /\ events[2].destStart > 0

----------------------------------------------------------------------------
(* Properties of the PCM encoding. *)

\* Every sample of the encoded buffer lies in [-1, 1].
InRange ==
    \A i \in 1..abuffer.numberOfChannels : \A k \in 1..abuffer.length :
        abuffer.channels[i][k] >= -1000 /\ abuffer.channels[i][k] <= 1000

\* |original - word / scale| <= 1 / 32767, the original in thousandths.
WithinQuantum(original, word, scale) ==
    Abs(original * scale - 1000 * word) <= (1000 * scale) \div 32767

\* C2: PCM round trip: the 16-bit word at byte 44 + 2 * (k * numChannels + c)
\* divided by the scale it was written with is within 1/32767 of sample k
\* of channel c, for every frame k and channel c of a buffer whose samples
\* lie in [-1, 1].
PcmRoundTrip ==
    (pc = "blob" /\ InRange) =>
        \A k \in 0..(abuffer.length - 1) :
            \A c \in 0..(abuffer.numberOfChannels - 1) :
                \E scale \in {32767, 32768} :
                    WithinQuantum(abuffer.channels[c + 1][k + 1],
                                  view.data[k * abuffer.numberOfChannels + c + 1],
                                  scale)

\* The 16-bit value C5 gives for a sample: the clamped sample times 32768
\* when negative, times 32767 when not, truncated toward zero.
ClaimedInt16(raw) ==
    LET sample == Max(-1000, Min(1000, raw))
    IN  IF sample < 0
        THEN Truncate(sample * 32768, 1000)
        ELSE Truncate(sample * 32767, 1000)

\* C5: every sample the loop reads is written as truncate(s * 32768) when
\* the clamped sample s is negative and truncate(s * 32767) when it is not.
SampleScaling ==
    [][ (pc = "samples" /\ pos < abuffer.length) =>
            \A i \in 0..(abuffer.numberOfChannels - 1) :
                view'.data[WordAt(HeaderBytes + offset + 2 * i)] =
                    ClaimedInt16(abuffer.channels[i + 1][pos + 1]) ]_vars

\* The little-endian field of `size` bytes at byte `at` of the output holds
\* `data`.
HeaderField(at, size, data) ==
    \E n \in DOMAIN view.header :
        view.header[n] = [at |-> at, size |-> size, data |-> data]

\* The header of C17 for a buffer of L frames, C channels and rate R, and
\* the 44 + 2 * L * C bytes of the output.
WavHeaderFields ==
    LET L == abuffer.length
        C == abuffer.numberOfChannels
        R == abuffer.sampleRate
    IN  /\ HeaderBytes + 2 * Len(view.data) = 44 + 2 * L * C
        /\ HeaderField(4, 4, 36 + 2 * L * C)
        /\ HeaderField(16, 4, 16)
        /\ HeaderField(20, 2, 1)
        /\ HeaderField(22, 2, C)
        /\ HeaderField(24, 4, R)
        /\ HeaderField(28, 4, 2 * R * C)
        /\ HeaderField(32, 2, 2 * C)
        /\ HeaderField(34, 2, 16)
        /\ HeaderField(40, 4, 2 * L * C)
        /\ \A n \in DOMAIN view.header :
               view.header[n].at + view.header[n].size <= HeaderBytes

\* C17: for a buffer of L frames, C channels and rate R, bufferToWav returns
\* 44 + 2 * L * C bytes whose header holds RIFF size 36 + 2 * L * C, fmt
\* length 16, format 1, C channels, rate R, byte rate 2 * R * C, block align
\* 2 * C, 16 bits per sample and data size 2 * L * C, followed by the samples
\* interleaved by channel: data word k * C + c is the 16-bit encoding of
\* sample k of channel c.
WavLayout ==
    pc = "blob" =>
        /\ WavHeaderFields
        /\ \A k \in 0..(abuffer.length - 1) :
               \A c \in 0..(abuffer.numberOfChannels - 1) :
                   view.data[k * abuffer.numberOfChannels + c + 1] =
                       Int16(wavSample(abuffer.channels[c + 1][k + 1]))

\* What bufferToWav leaves in its DataView for a buffer: the header, and
\* the data words, word k * numberOfChannels + c holding the sample of frame
\* k + 44 of channel c, or zero when the buffer has no such frame.
WavResult(buf) ==
    [ header |-> WaveHeader(buf).header,
      data |-> [m \in 1..(buf.length * buf.numberOfChannels) |->
                   LET k == (m - 1) \div buf.numberOfChannels
                       c == (m - 1) % buf.numberOfChannels
                   IN  IF k + 44 < buf.length
                       THEN Int16(wavSample(buf.channels[c + 1][k + 44 + 1]))
                       ELSE 0] ]

\* What generateMasterBuffer returns for the clips it analyzed.
MasterResult(analyzed) ==
    IF analyzed = <<>>
    THEN [ numberOfChannels |-> 2, length |-> 44100, sampleRate |-> 44100,
           sources |-> {} ]
    ELSE [ numberOfChannels |-> 2,
           length |-> Frames(Timeline(analyzed)[Len(analyzed)].destEnd, 44100),
           sampleRate |-> 44100,
           sources |-> DOMAIN analyzed ]

\* C14: when window.lamejs is absent bufferToMp3 fails before it reads a
\* sample, calls an encoder operation or produces output, while bufferToWav
\* and generateMasterBuffer end with the results they have whether the
\* encoder is there or not.
EncoderUnavailable ==
    /\ (~lamejs /\ mbuffer # NoBuffer) =>
          /\ pc \in {"bufferToMp3", "mp3failed"}
          /\ pc = "bufferToMp3" => mp3 = NoEncoding
          /\ pc = "mp3failed" =>
                 /\ mp3.thrown
                 /\ mp3.read = 0
                 /\ mp3.ops = <<>>
                 /\ mp3.mp3Data = <<>>
                 /\ mp3.blob = <<>>
    /\ (lamejs /\ mbuffer # NoBuffer) => pc # "mp3failed"
    /\ pc = "blob" => view = WavResult(abuffer)
    /\ pc = "done" => master = MasterResult(analyzedTracks)
    /\ (pc = "failed" /\ events # <<>>) => ScheduleThrows(Timeline(analyzedTracks))

\* bufferToMp3 has failed for a buffer of more than two blocks, the encoder
\* being absent.
EncoderUnavailableWitness ==
    /\ pc = "mp3failed"
    /\ ~lamejs
    /\ mbuffer.length > 2 * 1152
    /\ mbuffer.numberOfChannels = 2

----------------------------------------------------------------------------
(* Properties of the compressed encoding. *)

\* ceil(n / 1152)
BlocksOf(n) == (n + 1151) \div 1152

\* The positions in the encoder's call list of the calls that returned a
\* chunk that is not empty, in call order.
RECURSIVE ChunkCalls(_, _)
ChunkCalls(ops, k) ==
    IF k > Len(ops) THEN <<>>
    ELSE IF ops[k].op \in {"encodeBuffer", "flush"} /\ ops[k].chunk > 0
         THEN <<k>> \o ChunkCalls(ops, k + 1)
         ELSE ChunkCalls(ops, k + 1)

\* C23: for a buffer of N frames encodeBuffer is called ceil(N / 1152) times
\* in increasing frame order with blocks of 1,152 frames (the last one
\* shorter) that cover every frame exactly once, flush is called exactly
\* once and only after the last block, and the output is the concatenation
\* in call order of the chunks those calls returned.
BlockwiseEncoding ==
    /\ pc = "mp3blocks" => \A k \in DOMAIN mp3.ops : mp3.ops[k].op # "flush"
    /\ pc = "mp3blob" =>
          LET N == mbuffer.length
              n == BlocksOf(N)
              ops == mp3.ops
              blocks == {k \in DOMAIN ops : ops[k].op = "encodeBuffer"}
          IN  /\ Len(ops) = n + 2
              /\ ops[1].op = "Mp3Encoder"
              /\ blocks = 2..(n + 1)
              /\ \A k \in blocks :
                     /\ ops[k].from = (k - 2) * 1152
                     /\ ops[k].size = Min(1152, N - ops[k].from)
                     /\ Len(ops[k].left) = ops[k].size
                     /\ Len(ops[k].right) = ops[k].size
              /\ \A f \in 0..(N - 1) :
                     Cardinality({k \in blocks :
                         ops[k].from <= f /\ f < ops[k].from + ops[k].size}) = 1
              /\ ops[n + 2].op = "flush"
              /\ mp3.blob = ChunkCalls(ops, 1)

\* A buffer of two blocks and one frame has been encoded; the encoder
\* returned nothing for the first block and a chunk for the flush.
BlockwiseEncodingWitness ==
    /\ pc = "mp3blob"
    /\ mbuffer.length = 2 * 1152 + 1
    /\ mp3.ops[2].chunk = 0
    /\ mp3.ops[4].size = 1
    /\ mp3.blob = <<3, 4, 5>>

\* C24: every 16-bit integer bufferToMp3 hands to the encoder is the 16-bit
\* integer bufferToWav writes for the same sample value.
SameScalingAsWav ==
    pc \in {"mp3blocks", "mp3blob"} =>
        \A k \in DOMAIN mp3.ops :
            mp3.ops[k].op = "encodeBuffer" =>
                \A j \in 1..mp3.ops[k].size :
                    /\ mp3.ops[k].left[j] =
                           Int16(wavSample(mbuffer.channels[1][mp3.ops[k].from + j]))
                    /\ mp3.ops[k].right[j] =
                           Int16(wavSample(mbuffer.channels[mbuffer.numberOfChannels]
                                                           [mp3.ops[k].from + j]))

\* The same for samples that are not in [-0.5, 0).
SameScalingOutsideHalf ==
    pc \in {"mp3blocks", "mp3blob"} =>
        \A k \in DOMAIN mp3.ops :
            mp3.ops[k].op = "encodeBuffer" =>
                \A j \in 1..mp3.ops[k].size :
                    LET raw == mbuffer.channels[1][mp3.ops[k].from + j]
                    IN  (raw < -500 \/ raw >= 0) =>
                            mp3.ops[k].left[j] = Int16(wavSample(raw))

----------------------------------------------------------------------------
(* Properties of the App's mix handler. *)

\* What a failed mix must leave alone.
MixOutcome ==
    <<app.masterBuffer, app.downloadWavUrl, app.history, app.urlsCreated,
      app.urlsRevoked>>

\* C29: when generateMasterBuffer fails during handleMix, masterBuffer,
\* downloadWavUrl and history stay as they were before the call and no
\* object URL is created or revoked; and isMixing is false again whenever
\* handleMix has completed, on success and on failure.
FailedMixKeepsState ==
    /\ [][ ((caller = "handleMix" \/ caller' = "handleMix")
                /\ ~(pc = "done" /\ caller' = "none"))
              => MixOutcome' = MixOutcome ]_vars
    /\ [](pc = "App" => ~app.isMixing)

\* A mix has succeeded and the next one has failed in handleMix.
FailedMixKeepsStateWitness ==
    /\ pc = "App"
    /\ settled = <<"resolved", "rejected">>
    /\ app.statusMessage = "error"
    /\ app.masterCall = 1
    /\ app.downloadWavUrl = 1
    /\ app.history = <<1>>
    /\ app.urlsCreated = {1}
    /\ app.urlsRevoked = {}

----------------------------------------------------------------------------
(* Properties of the previews. *)

\* The previews that can be heard: the audio element while it plays, and
\* every running context whose sources have started and not stopped.
AudiblePreviews ==
    (IF preview.playing THEN {0} ELSE {})
        \cup {ctx \in DOMAIN preview.contexts :
                 /\ preview.contexts[ctx].state = "running"
                 /\ preview.contexts[ctx].sources = "started"}

\* C28: at most one preview is audible at any time, whatever the order of
\* togglePreview and playTransitionPreview calls and of the decodes they
\* await.
OnePreviewAudible ==
    pc = "PlaylistView" => Cardinality(AudiblePreviews) <= 1

\* A transition preview was asked for, a second one was asked for while the
\* first awaited its decodes, the second has started playing, and the first
\* has since run to the end of its try block on its closed context.
OnePreviewAudibleWitness ==
    /\ pc = "PlaylistView"
    /\ Len(preview.calls) >= 2
    /\ preview.calls[1].stage = "started"
    /\ preview.calls[2].stage = "started"
    /\ preview.contexts[1].state = "closed"
    /\ preview.contexts[2].state = "running"
    /\ preview.transitionSourcesRef = 1
    /\ AudiblePreviews = {2}

----------------------------------------------------------------------------
(* Properties of the App's screens. *)

\* C30: from view 'home' and isAuthenticated false, after any sequence of
\* UI actions the admin view is shown only while authenticated: view =
\* 'admin' implies isAuthenticated.
AdminOnlyAuthenticated ==
    (pc = "Screens" /\ auth.view = "admin") => auth.isAuthenticated

\* The admin panel is on screen after the user who logged in has been
\* deleted.
AdminOnlyAuthenticatedWitness ==
    /\ pc = "Screens"
    /\ auth.view = "admin"
    /\ auth.isAuthenticated
    /\ auth.users = <<[username |-> "ana", password |-> "pw", role |-> "admin"]>>

----------------------------------------------------------------------------
(* Properties of the mix point. *)

\* The value C20 gives, in ticks: from the clip's category and cue points,
\* then pulled back before a Voice successor.
ClaimedMixPoint(cueIn, cueOut, mixPoint15, mixPoint6, category, successor) ==
    LET value == IF category = "VOICE" THEN cueOut - 1
                 ELSE IF Abs(mixPoint15 - mixPoint6) < 3
                      THEN IF cueOut - mixPoint15 > 3 THEN cueOut - 3 ELSE mixPoint15
                      ELSE IF cueOut - mixPoint15 > 12 THEN cueOut - 12 ELSE mixPoint15
    IN  IF successor = "VOICE" THEN Max(cueIn, value - 3) ELSE value

\* C20: the effective mix point of a clip is the function of (cueIn, cueOut,
\* mixPoint15, mixPoint6, category, successor category) that is cueOut - 0.5
\* for a Voice clip; otherwise, with |mixPoint15 - mixPoint6| < 1.5, cueOut -
\* 1.5 when cueOut - mixPoint15 > 1.5 and mixPoint15 when not; otherwise
\* cueOut - 6 when cueOut - mixPoint15 > 6 and mixPoint15 when not; and then,
\* before a Voice successor, max(cueIn, that value - 1.5).
MixPointIsPure ==
    pc = "mixed" =>
        LET current == mixInput.current
            successor == IF mixInput.next = NoTrack THEN "none" ELSE mixInput.next.type
        IN  mixPoint.effectiveMixPoint =
                ClaimedMixPoint(current.cueIn, current.cueOut, current.mixPoint15,
                                current.mixPoint6, current.type, successor)

\* A clip with a fade slope of exactly 1.5 seconds and a tail of more than
\* 6 seconds has its mix point computed before a Voice.
MixPointIsPureWitness ==
    /\ pc = "mixed"
    /\ mixInput.current.type = "MUSIC"
    /\ Abs(mixInput.current.mixPoint15 - mixInput.current.mixPoint6) = 3
    /\ mixInput.current.cueOut - mixInput.current.mixPoint15 > 12
    /\ mixInput.next # NoTrack
    /\ mixInput.next.type = "VOICE"
    /\ mixPoint.effectiveMixPoint = mixInput.current.cueOut - 15

----------------------------------------------------------------------------
(* Properties of the normalization. *)

\* The fraction f is a / b.
IsFraction(f, a, b) == f[1] * b = a * f[2]

\* C15: after normalizeBuffer, if the input had a nonzero sample then every
\* sample of every channel was multiplied by the one gain 0.89125 / maxPeak
\* and the largest absolute sample over all channels is 0.89125; if every
\* sample is zero, or there is none, the gain is 1 and every sample is
\* unchanged.
PeakNormalized ==
    pc = "normalized" =>
        LET peak == maxPeak(nbuffer)
            cells == (1..nbuffer.numberOfChannels) \X (1..nbuffer.length)
            out(i, j) == normalized.channels[i][j]
        IN  IF \E <<i, j>> \in cells : nbuffer.channels[i][j] # 0
            THEN /\ IsFraction(normalized.gain, 713, peak)
                 /\ \A <<i, j>> \in cells :
                        /\ IsFraction(out(i, j), nbuffer.channels[i][j] * 713, peak)
                        /\ Abs(out(i, j)[1]) <= 713 * out(i, j)[2]
                 /\ \E <<i, j>> \in cells :
                        Abs(out(i, j)[1]) = 713 * out(i, j)[2]
            ELSE /\ IsFraction(normalized.gain, 1, 1)
                 /\ \A <<i, j>> \in cells :
                        IsFraction(out(i, j), nbuffer.channels[i][j], 1)

\* A stereo buffer whose peak is on its second channel has been normalized,
\* its first channel staying below the target.
PeakNormalizedWitness ==
    /\ pc = "normalized"
    /\ nbuffer.numberOfChannels = 2
    /\ nbuffer.length = 2
    /\ maxPeak(nbuffer) = 320
    /\ nbuffer.channels[2][2] = -320
    /\ nbuffer.channels[1] = <<200, 0>>

----------------------------------------------------------------------------
(* Properties of the cue analysis. *)

\* No sample of channel 0 is above the threshold.
NoneAbove(buffer, thresholdDb) ==
    \A k \in 1..Len(buffer.data) : getDb(buffer.data[k]) <= thresholdDb

\* C3: 0 <= cueIn <= cueOut <= duration for every buffer; cueIn is 0 when
\* no sample is above -25 dB and cueOut is the duration when none is above
\* -28 dB.
CueOrder ==
    pc = "analyzed" =>
        /\ 0 <= cue.cueIn
        /\ cue.cueIn <= cue.cueOut
        /\ cue.cueOut <= Duration(cueBuffer)
        /\ NoneAbove(cueBuffer, -2500) => cue.cueIn = 0
        /\ NoneAbove(cueBuffer, -2800) => cue.cueOut = Duration(cueBuffer)

\* The frames of channel 0 at or before cueOut that exceed the threshold.
LoudUpTo(buffer, cueOut, thresholdDb) ==
    {k \in 0..(Len(buffer.data) - 1) :
        FrameTime(k, buffer) <= cueOut /\ getDb(buffer.data[k + 1]) > thresholdDb}

\* The time of the last of these frames, or max(0, cueOut - 2).
LastLoudUpTo(buffer, cueOut, thresholdDb) ==
    IF LoudUpTo(buffer, cueOut, thresholdDb) = {}
    THEN Max(0, cueOut - 4)
    ELSE FrameTime(SetMax(LoudUpTo(buffer, cueOut, thresholdDb)), buffer)

\* C16: mixPoint15 and mixPoint6 both lie in [0, cueOut], and each is the
\* time of the last channel-0 sample at or before cueOut that exceeds its
\* threshold (-15 dB, -6 dB), or max(0, cueOut - 2) when there is none.
MixPointsAtLastLoud ==
    pc = "analyzed" =>
        /\ 0 <= cue.mixPoint15 /\ cue.mixPoint15 <= cue.cueOut
        /\ 0 <= cue.mixPoint6 /\ cue.mixPoint6 <= cue.cueOut
        /\ cue.mixPoint15 = LastLoudUpTo(cueBuffer, cue.cueOut, -1500)
        /\ cue.mixPoint6 = LastLoudUpTo(cueBuffer, cue.cueOut, -600)

\* No sample from frame 0 to the frame of cueOutTime exceeds the threshold:
\* findMixPoint returns max(0, cueOutTime - 2).
FallsBack(buffer, cueOutTime, thresholdDb) ==
    \A i \in 0..TimeToFrame(cueOutTime, buffer) : ~Loud(buffer, i, thresholdDb)

\* C27: for a mono buffer with a nonzero sample that normalizeBuffer has
\* scaled, neither mix-point scan falls back to cueOut - 2 and the cue
\* points are ordered cueIn <= mixPoint6 <= mixPoint15 <= cueOut.
NormalizedMonoCues ==
    (/\ pc = "analyzed"
     /\ nbuffer # NoBuffer
     /\ nbuffer.numberOfChannels = 1
     /\ maxPeak(nbuffer) > 0)
        => /\ ~FallsBack(cueBuffer, cue.cueOut, MixPoint15Db)
           /\ ~FallsBack(cueBuffer, cue.cueOut, MixPoint6Db)
           /\ cue.cueIn <= cue.mixPoint6
           /\ cue.mixPoint6 <= cue.mixPoint15
           /\ cue.mixPoint15 <= cue.cueOut

\* The same when the frame of cueOut is recovered exactly.
NormalizedMonoCuesExact ==
    (/\ pc = "analyzed"
     /\ nbuffer # NoBuffer
     /\ nbuffer.numberOfChannels = 1
     /\ maxPeak(nbuffer) > 0
     /\ ~nbuffer.inexact)
        => /\ ~FallsBack(cueBuffer, cue.cueOut, MixPoint15Db)
           /\ ~FallsBack(cueBuffer, cue.cueOut, MixPoint6Db)
           /\ cue.cueIn <= cue.mixPoint6
           /\ cue.mixPoint6 <= cue.mixPoint15
           /\ cue.mixPoint15 <= cue.cueOut

\* A buffer with silence before and after its programme has been analyzed.
CueOrderWitness ==
    /\ pc = "analyzed"
    /\ 0 < cue.cueIn
    /\ cue.cueIn < cue.cueOut
    /\ cue.cueOut + cueBuffer.period < Duration(cueBuffer)

====
